---- MODULE Spec2Model ----
(***************************************************************************)
(* Card game engine (game_state.py, cards.py) and its minimax opponent     *)
(* (minimax.py).                                                           *)
(*                                                                         *)
(* Python objects live in a heap: heap.cards, heap.players and heap.games  *)
(* are sequences, a reference is an index into one of them, and None is 0. *)
(* A method is an operator from a heap (and its arguments) to a record     *)
(* [heap, ret, raised]: the heap after the call, the value returned and    *)
(* whether the call raised an exception.                                   *)
(***************************************************************************)
EXTENDS Integers, Sequences, FiniteSets, TLC

VARIABLES heap, last, steps, call

vars == <<heap, last, steps, call>>

None == 0

R(H, r) == [heap |-> H, ret |-> r, raised |-> FALSE]

Raise(H) == [heap |-> H, ret |-> None, raised |-> TRUE]

Max2(a, b) == IF a >= b THEN a ELSE b

Min2(a, b) == IF a <= b THEN a ELSE b

(***************************************************************************)
(* cards.py: guardian stars                                                *)
(***************************************************************************)
\* the table as one cycle through all ten stars
GUARDIAN_STARS_single_cycle ==
  [Sol      |-> [strong |-> "Luna",     weak |-> "Neptuno"],
   Luna     |-> [strong |-> "Venus",    weak |-> "Sol"],
   Venus    |-> [strong |-> "Mercurio", weak |-> "Luna"],
   Mercurio |-> [strong |-> "Marte",    weak |-> "Venus"],
   Marte    |-> [strong |-> "Jupiter",  weak |-> "Mercurio"],
   Jupiter  |-> [strong |-> "Saturno",  weak |-> "Marte"],
   Saturno  |-> [strong |-> "Urano",    weak |-> "Jupiter"],
   Urano    |-> [strong |-> "Pluton",   weak |-> "Saturno"],
   Pluton   |-> [strong |-> "Neptuno",  weak |-> "Urano"],
   Neptuno  |-> [strong |-> "Sol",      weak |-> "Pluton"]]

GUARDIAN_STARS ==
  [Sol      |-> [strong |-> "Luna",     weak |-> "Mercurio"],
   Luna     |-> [strong |-> "Venus",    weak |-> "Sol"],
   Venus    |-> [strong |-> "Mercurio", weak |-> "Luna"],
   Mercurio |-> [strong |-> "Sol",      weak |-> "Venus"],
   Marte    |-> [strong |-> "Jupiter",  weak |-> "Neptuno"],
   Jupiter  |-> [strong |-> "Saturno",  weak |-> "Marte"],
   Saturno  |-> [strong |-> "Urano",    weak |-> "Jupiter"],
   Urano    |-> [strong |-> "Pluton",   weak |-> "Saturno"],
   Pluton   |-> [strong |-> "Neptuno",  weak |-> "Urano"],
   Neptuno  |-> [strong |-> "Marte",    weak |-> "Pluton"]]

Stars == DOMAIN GUARDIAN_STARS

ATTRIBUTE_TO_STARS ==
  [Light  |-> <<"Sol", "Mercurio">>,
   Dark   |-> <<"Luna", "Venus">>,
   Fire   |-> <<"Marte", "Sol">>,
   Water  |-> <<"Neptuno", "Luna">>,
   Earth  |-> <<"Urano", "Jupiter">>,
   Wind   |-> <<"Saturno", "Jupiter">>,
   Divine |-> <<"Sol", "Luna">>]

TYPE_TO_STARS ==
  ("Dragon"        :> <<"Marte", "Luna">>) @@
  ("Spellcaster"   :> <<"Mercurio", "Venus">>) @@
  ("Warrior"       :> <<"Urano", "Sol">>) @@
  ("Beast"         :> <<"Jupiter", "Saturno">>) @@
  ("Beast-Warrior" :> <<"Jupiter", "Urano">>) @@
  ("Winged-Beast"  :> <<"Saturno", "Jupiter">>) @@
  ("Fiend"         :> <<"Luna", "Venus">>) @@
  ("Zombie"        :> <<"Luna", "Pluton">>) @@
  ("Machine"       :> <<"Pluton", "Urano">>) @@
  ("Aqua"          :> <<"Neptuno", "Luna">>) @@
  ("Fish"          :> <<"Neptuno", "Saturno">>) @@
  ("Sea-Serpent"   :> <<"Neptuno", "Marte">>) @@
  ("Reptile"       :> <<"Urano", "Neptuno">>) @@
  ("Pyro"          :> <<"Marte", "Sol">>) @@
  ("Thunder"       :> <<"Pluton", "Saturno">>) @@
  ("Rock"          :> <<"Urano", "Marte">>) @@
  ("Plant"         :> <<"Jupiter", "Sol">>) @@
  ("Insect"        :> <<"Jupiter", "Luna">>) @@
  ("Fairy"         :> <<"Sol", "Venus">>) @@
  ("Dinosaur"      :> <<"Urano", "Marte">>)

\* the weakness ignored: no penalty against the star one is weak to
calculate_star_bonus_no_penalty(attacker_star, defender_star) ==
  IF attacker_star \notin DOMAIN GUARDIAN_STARS THEN 0
  ELSE IF GUARDIAN_STARS[attacker_star].strong = defender_star THEN 500
  ELSE 0

\* calculate_star_bonus(attacker_star, defender_star)
calculate_star_bonus(attacker_star, defender_star) ==
  LET Bonus(stars) ==
        IF attacker_star \notin DOMAIN stars THEN 0
        ELSE IF stars[attacker_star].strong = defender_star THEN 500
        ELSE IF stars[attacker_star].weak = defender_star THEN -500
        ELSE 0
  IN  Bonus(GUARDIAN_STARS)

\* the two stars as derived, without the substitution of equal stars
assign_guardian_stars_as_derived(attribute, card_type) ==
  <<IF attribute \in DOMAIN ATTRIBUTE_TO_STARS
    THEN ATTRIBUTE_TO_STARS[attribute][1] ELSE "Urano",
    IF card_type \in DOMAIN TYPE_TO_STARS
    THEN TYPE_TO_STARS[card_type][2] ELSE "Jupiter">>

\* Card._assign_guardian_stars: <<star1, star2>>
assign_guardian_stars(attribute, card_type) ==
  LET Assign(by_attribute, by_type) ==
        LET star1 == IF attribute \in DOMAIN by_attribute
                     THEN by_attribute[attribute][1] ELSE "Urano"
            star2 == IF card_type \in DOMAIN by_type
                     THEN by_type[card_type][2] ELSE "Jupiter"
        IN  IF star1 = star2
            THEN <<star1, (IF attribute \in DOMAIN by_attribute
                           THEN by_attribute[attribute]
                           ELSE <<"Urano", "Jupiter">>)[2]>>
            ELSE <<star1, star2>>
  IN  Assign(ATTRIBUTE_TO_STARS, TYPE_TO_STARS)

\* Card.__init__
Card(card_id, name, card_type, atk, defense, attribute, level) ==
  LET New(stars) ==
        [id |-> card_id, name |-> name, card_type |-> card_type, atk |-> atk,
         defense |-> defense, attribute |-> attribute, level |-> level,
         star1 |-> stars[1], star2 |-> stars[2], selected_star |-> stars[1],
         position |-> "ATK"]
  IN  New(assign_guardian_stars(attribute, card_type))

(***************************************************************************)
(* The card and fusion data.  data/monsters.csv and data/fusions.csv are   *)
(* read when the module cards is imported; the tables below are the data   *)
(* set of the model.  A row of the monsters file is                        *)
(* <<id, name, type, atk, def, attribute, level>>.                         *)
(***************************************************************************)
Monsters ==
  << <<1, "Sol Knight",      "Warrior",     1800, 1200, "Light", 4>>,
     <<2, "Moon Fiend",      "Fiend",       1500, 1600, "Dark",  4>>,
     <<3, "Stone Wall",      "Rock",        1300, 2000, "Earth", 4>>,
     <<4, "Twilight Dragon", "Dragon",      2000, 1700, "Dark",  7>>,
     <<5, "Sun Soldier",     "Fairy",       1800, 1000, "Light", 4>>,
     <<6, "Tide Serpent",    "Sea-Serpent", 1500, 1400, "Water", 4>> >>

\* the names of the monsters, as spelled in the data
CardNames == {Monsters[i][2] : i \in DOMAIN Monsters}

\* Fusion.__init__ rows, in file order
FUSIONS ==
  << [material1 |-> "moon fiend", material2 |-> "Sol Knight",
      result_name |-> "Twilight Dragon", result_atk |-> 2000,
      result_def |-> 1700, result_attr |-> "Dark", result_type |-> "Dragon"],
     [material1 |-> "Stone Wall", material2 |-> "tide serpent",
      result_name |-> "Abyss Golem", result_atk |-> 2600,
      result_def |-> 2100, result_attr |-> "Water", result_type |-> "Rock"],
     [material1 |-> "Abyss Golem", material2 |-> "Sun Soldier",
      result_name |-> "Deep Warden", result_atk |-> 2500,
      result_def |-> 2300, result_attr |-> "Water", result_type |-> "Rock"] >>

\* str.lower(): every letter A-Z of s replaced by its lower case (the
\* strings of the model are ASCII)
UpperCase == "ABCDEFGHIJKLMNOPQRSTUVWXYZ"

LowerCase == "abcdefghijklmnopqrstuvwxyz"

LowerChar(c) ==
  LET At(places) ==
        IF places = {} THEN c
        ELSE SubSeq(LowerCase, CHOOSE k \in places : TRUE,
                    CHOOSE k \in places : TRUE)
  IN  At({k \in 1..Len(UpperCase) : SubSeq(UpperCase, k, k) = c})

RECURSIVE LowerFrom(_, _)
LowerFrom(s, k) ==
  IF k > Len(s) THEN ""
  ELSE LowerChar(SubSeq(s, k, k)) \o LowerFrom(s, k + 1)

\* the strings the program lowers again and again, lowered once
Lowered ==
  [s \in CardNames
         \cup {FUSIONS[k].material1 : k \in DOMAIN FUSIONS}
         \cup {FUSIONS[k].material2 : k \in DOMAIN FUSIONS}
         \cup {FUSIONS[k].result_name : k \in DOMAIN FUSIONS}
     |-> LowerFrom(s, 1)]

Lower(s) == IF s \in DOMAIN Lowered THEN Lowered[s] ELSE LowerFrom(s, 1)

(***************************************************************************)
(* Heap: the objects of the program (games, players, cards; a reference is *)
(* the index of the object, None is 0) and the globals CARD_DATABASE and   *)
(* CARD_BY_NAME of the module cards.                                       *)
(***************************************************************************)
\* the heap before the module cards has read its data: CARD_DATABASE = [],
\* CARD_BY_NAME = {}
NoData ==
  [games |-> <<>>, players |-> <<>>, cards |-> <<>>, CARD_DATABASE |-> <<>>,
   CARD_BY_NAME |-> <<>>]

\* load_monsters_from_csv() on a monsters file of the rows given:
\* CARD_DATABASE is one Card for each row, CARD_BY_NAME the card of every
\* lowered name, a later row replacing an earlier one of the same key
load_monsters_from_csv(H, rows) ==
  LET cards == [k \in 1..Len(rows) |->
                  Card(rows[k][1], rows[k][2], rows[k][3], rows[k][4],
                       rows[k][5], rows[k][6], rows[k][7])]
      Last(key) ==
        CHOOSE k \in DOMAIN cards :
          /\ Lower(cards[k].name) = key
          /\ \A other \in DOMAIN cards :
               Lower(cards[other].name) = key => other <= k
  IN  [H EXCEPT
         !.CARD_DATABASE = cards,
         !.CARD_BY_NAME =
            [key \in {Lower(cards[k].name) : k \in DOMAIN cards} |->
               cards[Last(key)]]]

\* the heap once the module cards is imported with the monsters file of the
\* model
EmptyHeap == load_monsters_from_csv(NoData, Monsters)

NewCard(H, c) == R([H EXCEPT !.cards = Append(@, c)], Len(H.cards) + 1)

NewPlayer(H, p) == R([H EXCEPT !.players = Append(@, p)], Len(H.players) + 1)

NewGame(H, g) == R([H EXCEPT !.games = Append(@, g)], Len(H.games) + 1)

\* the card objects a list of references points to
CardsAt(H, refs) == [k \in 1..Len(refs) |-> H.cards[refs[k]]]

\* Card.set_position
set_position(H, c, position) == [H EXCEPT !.cards[c].position = position]

\* Card.select_star
select_star(H, c, star_num) ==
  [H EXCEPT !.cards[c].selected_star =
      IF star_num = 1 THEN H.cards[c].star1 ELSE H.cards[c].star2]

\* Card.get_battle_value
Card_get_battle_value(card) ==
  IF card.position = "ATK" THEN card.atk ELSE card.defense

\* a list of new objects (ret) with one more new object at its end
Add(list, new_object) == R(new_object.heap, Append(list.ret, new_object.ret))

\* Card.copy that hands back the card itself instead of a new object
Card_copy_shared(H, c) == R(H, c)

\* Card.copy: the fields of the new Card object
Card_copied(old) ==
  [Card(old.id, old.name, old.card_type, old.atk, old.defense, old.attribute,
        old.level)
     EXCEPT !.star1 = old.star1, !.star2 = old.star2,
            !.selected_star = old.selected_star, !.position = old.position]

\* Card.copy: a new Card object with the same fields
Card_copy(H, c) == NewCard(H, Card_copied(H.cards[c]))

\* get_card_by_name(name): a copy of the card of that name, or None
get_card_by_name(H, name) ==
  IF Lower(name) \in DOMAIN H.CARD_BY_NAME
  THEN NewCard(H, Card_copied(H.CARD_BY_NAME[Lower(name)]))
  ELSE R(H, None)

\* get_all_cards(): [card.copy() for card in CARD_DATABASE]
get_all_cards(H) ==
  LET RECURSIVE Loop(_)
      Loop(copies) ==
        IF Len(copies.ret) = Len(H.CARD_DATABASE) THEN copies
        ELSE Loop(Add(copies,
                      NewCard(copies.heap,
                              Card_copied(
                                H.CARD_DATABASE[Len(copies.ret) + 1]))))
  IN  Loop(R(H, <<>>))

\* [c.copy() for c in cards]: the cards are copied from left to right, the
\* list so far (ret) growing by one new object each time
CopyCards(H, cards) ==
  LET RECURSIVE Loop(_)
      Loop(copies) ==
        IF Len(copies.ret) = Len(cards) THEN copies
        ELSE Loop(Add(copies,
                      Card_copy(copies.heap, cards[Len(copies.ret) + 1])))
  IN  Loop(R(H, <<>>))

\* check_fusion's loop matching the materials in the listed order only
FusionIndex_listed_order(card1_name, card2_name, k) ==
  LET rows == {r \in k..Len(FUSIONS) :
                 /\ Lower(FUSIONS[r].material1) = Lower(card1_name)
                 /\ Lower(FUSIONS[r].material2) = Lower(card2_name)}
  IN  IF rows = {} THEN 0
      ELSE CHOOSE r \in rows : \A other \in rows : r <= other

\* check_fusion(card1_name, card2_name): the first matching row, as a new Card
RECURSIVE FusionIndex(_, _, _)
FusionIndex(card1_name, card2_name, k) ==
  IF k > Len(FUSIONS) THEN 0
  ELSE IF \/ /\ Lower(FUSIONS[k].material1) = Lower(card1_name)
             /\ Lower(FUSIONS[k].material2) = Lower(card2_name)
          \/ /\ Lower(FUSIONS[k].material1) = Lower(card2_name)
             /\ Lower(FUSIONS[k].material2) = Lower(card1_name)
       THEN k
       ELSE FusionIndex(card1_name, card2_name, k + 1)

\* the Card built by check_fusion for row k (FUSIONS.index is 0-based)
FusionCard(k) ==
  Card(9000 + (k - 1), FUSIONS[k].result_name, FUSIONS[k].result_type,
       FUSIONS[k].result_atk, FUSIONS[k].result_def, FUSIONS[k].result_attr, 7)

\* check_fusion returns a new Card object or None; the object enters the heap
\* when a caller stores it, so the result is <<card>> or <<>> (None)
check_fusion(card1_name, card2_name) ==
  LET Found(k) == IF k = 0 THEN <<>> ELSE <<FusionCard(k)>>
  IN  Found(FusionIndex(card1_name, card2_name, 1))

check_fusion_by_cards(card1, card2) == check_fusion(card1.name, card2.name)

\* get_possible_fusions_for_hand trying every ordered pair of different
\* indices
get_possible_fusions_for_hand_both_orders(hand) ==
  LET RECURSIVE Scan(_, _)
      Scan(i, j) ==
        IF i >= Len(hand) THEN <<>>
        ELSE IF j >= Len(hand) THEN Scan(i + 1, 0)
        ELSE LET Pair(result) ==
                   IF i # j /\ result # <<>>
                   THEN << <<i, j, result[1]>> >> ELSE <<>>
             IN  Pair(check_fusion_by_cards(hand[i + 1], hand[j + 1]))
                 \o Scan(i, j + 1)
  IN  Scan(0, 0)

\* get_possible_fusions_for_hand(hand): <<idx1, idx2, result>> (0-based), with
\* hand a sequence of card records
get_possible_fusions_for_hand(hand) ==
  LET RECURSIVE Scan(_, _)
      Scan(i, j) ==
        IF i >= Len(hand) THEN <<>>
        ELSE IF j >= Len(hand) THEN Scan(i + 1, i + 2)
        ELSE LET Pair(result) ==
                   IF result # <<>> THEN << <<i, j, result[1]>> >> ELSE <<>>
             IN  Pair(check_fusion_by_cards(hand[i + 1], hand[j + 1]))
                 \o Scan(i, j + 1)
  IN  Scan(0, 1)

(***************************************************************************)
(* Python list indexing                                                    *)
(***************************************************************************)
\* position (1-based) of seq[i] for a Python index i, 0 when i is out of range
PyIndex(n, i) ==
  IF 0 <= i /\ i < n THEN i + 1
  ELSE IF i < 0 /\ -n <= i THEN n + i + 1
  ELSE 0

RemoveAt(seq, k) == SubSeq(seq, 1, k - 1) \o SubSeq(seq, k + 1, Len(seq))

(***************************************************************************)
(* game_state.py: Player                                                   *)
(***************************************************************************)
HandLimit == 5

\* Player.__init__
Player(name, is_ai) ==
  [name |-> name, is_ai |-> is_ai, life_points |-> 8000, deck |-> <<>>,
   hand |-> <<>>, field |-> None, graveyard |-> <<>>,
   last_sacrificed_card |-> None]

\* Player.draw_card without the limit on the hand
draw_card_unbounded(H, p) ==
  IF Len(H.players[p].deck) > 0
  THEN R([H EXCEPT !.players[p].deck = Tail(@),
                   !.players[p].hand = Append(@, Head(H.players[p].deck))],
         Head(H.players[p].deck))
  ELSE R(H, None)

\* Player.draw_card
draw_card(H, p) ==
  LET P == H.players[p] IN
  IF Len(P.deck) > 0 /\ Len(P.hand) < HandLimit
  THEN LET card == Head(P.deck) IN
       R([H EXCEPT !.players[p].deck = Tail(@),
                   !.players[p].hand = Append(@, card)], card)
  ELSE R(H, None)

\* Player.play_card with the index taken as list.pop takes it: negative
\* indices count from the end of the hand
play_card_from_the_end(H, p, hand_index, position, star_num) ==
  LET P == H.players[p]
      k == PyIndex(Len(P.hand), hand_index)
  IN  IF k = 0 THEN R(H, FALSE)
      ELSE R(select_star(
               set_position(
                 [H EXCEPT
                    !.players[p].last_sacrificed_card = P.field,
                    !.players[p].graveyard =
                        IF P.field # None THEN Append(@, P.field) ELSE @,
                    !.players[p].hand = RemoveAt(@, k),
                    !.players[p].field = P.hand[k]],
                 P.hand[k], position),
               P.hand[k], star_num), TRUE)

\* Player.play_card
play_card(H, p, hand_index, position, star_num) ==
  LET P == H.players[p] IN
  IF hand_index < 0 \/ hand_index >= Len(P.hand) THEN R(H, FALSE)
  ELSE LET card == P.hand[hand_index + 1]
           H1 == [H EXCEPT
                    !.players[p].last_sacrificed_card = P.field,
                    !.players[p].graveyard =
                        IF P.field # None THEN Append(@, P.field) ELSE @,
                    !.players[p].hand = RemoveAt(@, hand_index + 1),
                    !.players[p].field = card]
       IN  R(select_star(set_position(H1, card, position), card, star_num),
             TRUE)

\* Player.undo_play_card that brings the recorded card back wherever it lies
\* in the graveyard
undo_play_card_any_depth(H, p) ==
  LET P == H.players[p] IN
  IF P.field = None THEN R(H, FALSE)
  ELSE R([H EXCEPT
            !.players[p].hand = Append(@, P.field),
            !.players[p].field = P.last_sacrificed_card,
            !.players[p].graveyard =
                SelectSeq(@, LAMBDA c : c # P.last_sacrificed_card),
            !.players[p].last_sacrificed_card = None], TRUE)

\* Player.undo_play_card
undo_play_card(H, p) ==
  LET P == H.players[p] IN
  IF P.field = None THEN R(H, FALSE)
  ELSE LET restore == /\ P.last_sacrificed_card # None
                      /\ P.graveyard # <<>>
                      /\ P.graveyard[Len(P.graveyard)] = P.last_sacrificed_card
       IN  R([H EXCEPT
                !.players[p].hand = Append(@, P.field),
                !.players[p].field =
                    IF restore THEN P.graveyard[Len(P.graveyard)] ELSE None,
                !.players[p].graveyard =
                    IF restore THEN SubSeq(@, 1, Len(@) - 1) ELSE @,
                !.players[p].last_sacrificed_card = None], TRUE)

\* Player.can_fuse without its checks: the two hand cards are looked up at
\* once
can_fuse_unchecked(H, p, idx1, idx2) ==
  LET hand == H.players[p].hand
      n == Len(hand)
  IN  IF PyIndex(n, idx1) = 0 \/ PyIndex(n, idx2) = 0 THEN Raise(H)
      ELSE R(H, check_fusion_by_cards(H.cards[hand[PyIndex(n, idx1)]],
                                      H.cards[hand[PyIndex(n, idx2)]]))

\* Player.can_fuse: <<card>> or <<>>; raises IndexError below -len(hand)
can_fuse(H, p, idx1, idx2) ==
  LET hand == H.players[p].hand
      n == Len(hand)
  IN  IF idx1 >= n \/ idx2 >= n \/ idx1 = idx2 THEN R(H, <<>>)
      ELSE IF PyIndex(n, idx1) = 0 \/ PyIndex(n, idx2) = 0 THEN Raise(H)
      ELSE R(H, check_fusion_by_cards(H.cards[hand[PyIndex(n, idx1)]],
                                      H.cards[hand[PyIndex(n, idx2)]]))

\* Player.fuse_cards that pops the smaller index first, the larger index
\* then pointing one card too far
fuse_cards_lower_first(H, p, idx1, idx2) ==
  LET hand == H.players[p].hand
      hi == IF idx1 > idx2 THEN idx1 ELSE idx2
      lo == IF idx1 > idx2 THEN idx2 ELSE idx1
      Store(new) ==
        R([new.heap EXCEPT !.players[p].hand = Append(@, new.ret)], new.ret)
      PopSecond(H1, hand1, k2, result) ==
        IF k2 = 0 THEN Raise(H1)
        ELSE Store(NewCard([H1 EXCEPT
                              !.players[p].hand = RemoveAt(hand1, k2),
                              !.players[p].graveyard = Append(@, hand1[k2])],
                           result))
      PopFirst(k1, hand1, result) ==
        PopSecond([H EXCEPT !.players[p].hand = hand1,
                            !.players[p].graveyard = Append(@, hand[k1])],
                  hand1, PyIndex(Len(hand1), hi), result)
      Fuse(result) ==
        IF result.raised THEN Raise(H)
        ELSE IF result.ret = <<>> THEN R(H, None)
        ELSE PopFirst(PyIndex(Len(hand), lo),
                      RemoveAt(hand, PyIndex(Len(hand), lo)), result.ret[1])
  IN  Fuse(can_fuse(H, p, idx1, idx2))

\* Player.fuse_cards: the new card's reference or None
fuse_cards(H, p, idx1, idx2) ==
  LET hand == H.players[p].hand
      hi == IF idx1 > idx2 THEN idx1 ELSE idx2
      lo == IF idx1 > idx2 THEN idx2 ELSE idx1
      \* self.hand.append(result)
      Store(new) ==
        R([new.heap EXCEPT !.players[p].hand = Append(@, new.ret)], new.ret)
      \* the second pop, of the smaller index
      PopSecond(H1, hand1, k2, result) ==
        IF k2 = 0 THEN Raise(H1)
        ELSE Store(NewCard([H1 EXCEPT
                              !.players[p].hand = RemoveAt(hand1, k2),
                              !.players[p].graveyard = Append(@, hand1[k2])],
                           result))
      \* the first pop, of the larger index
      PopFirst(k1, hand1, result) ==
        PopSecond([H EXCEPT !.players[p].hand = hand1,
                            !.players[p].graveyard = Append(@, hand[k1])],
                  hand1, PyIndex(Len(hand1), lo), result)
      Fuse(result) ==
        IF result.raised THEN Raise(H)
        ELSE IF result.ret = <<>> THEN R(H, None)
        ELSE PopFirst(PyIndex(Len(hand), hi),
                      RemoveAt(hand, PyIndex(Len(hand), hi)), result.ret[1])
  IN  Fuse(can_fuse(H, p, idx1, idx2))

\* Player.get_possible_fusions
get_possible_fusions(H, p) ==
  get_possible_fusions_for_hand(
    [k \in 1..Len(H.players[p].hand) |-> H.cards[H.players[p].hand[k]]])

\* Player.copy
Player_copy(H, p) ==
  LET P == H.players[p]
      cards == P.deck \o P.hand
                 \o (IF P.field # None THEN <<P.field>> ELSE <<>>)
                 \o P.graveyard
      Part(copies, from, length) == SubSeq(copies, from + 1, from + length)
      New(copies) ==
        NewPlayer(copies.heap,
                  [Player(P.name, P.is_ai) EXCEPT
                     !.life_points = P.life_points,
                     !.deck = Part(copies.ret, 0, Len(P.deck)),
                     !.hand = Part(copies.ret, Len(P.deck), Len(P.hand)),
                     !.field = IF P.field # None
                               THEN copies.ret[Len(P.deck) + Len(P.hand) + 1]
                               ELSE None,
                     !.graveyard =
                        Part(copies.ret, Len(copies.ret) - Len(P.graveyard),
                             Len(P.graveyard))])
  IN  New(CopyCards(H, cards))

(***************************************************************************)
(* game_state.py: GameState                                                *)
(***************************************************************************)
\* GameState.__init__: the two players and the game object
GameState(H, deck_size) ==
  LET human == NewPlayer(H, Player("Jugador", FALSE))
      ai == NewPlayer(human.heap, Player("IA", TRUE))
  IN  NewGame(ai.heap,
              [deck_size |-> Max2(10, Min2(deck_size, 40)),
               human |-> human.ret, ai |-> ai.ret,
               current_player |-> human.ret, turn_number |-> 1,
               game_over |-> FALSE, winner |-> None, battle_log |-> <<>>,
               last_battle_result |-> <<>>, phase |-> "DRAW"])

Human(H, g) == H.players[H.games[g].human]

Ai(H, g) == H.players[H.games[g].ai]

\* the player object of a side of game g
PlayerOf(H, g, side) == IF side = "human" THEN H.games[g].human ELSE H.games[g].ai

\* GameState.get_battle_value(card, opponent_card=None)
get_battle_value(H, card, opponent_card) ==
  IF opponent_card # None
  THEN Card_get_battle_value(H.cards[card])
         + calculate_star_bonus(H.cards[card].selected_star,
                                H.cards[opponent_card].selected_star)
  ELSE Card_get_battle_value(H.cards[card])

\* check_game_over looking at the AI before the human
check_game_over_ai_first(H, g) ==
  LET G == H.games[g]
      human == H.players[G.human]
      ai == H.players[G.ai]
      human_has_cards ==
        Len(human.deck) > 0 \/ Len(human.hand) > 0 \/ human.field # None
      ai_has_cards == Len(ai.deck) > 0 \/ Len(ai.hand) > 0 \/ ai.field # None
      Over(w) == [H EXCEPT !.games[g].game_over = TRUE, !.games[g].winner = w]
  IN  IF ai.life_points <= 0 THEN Over(G.human)
      ELSE IF human.life_points <= 0 THEN Over(G.ai)
      ELSE IF ~ai_has_cards THEN Over(G.human)
      ELSE IF ~human_has_cards THEN Over(G.ai)
      ELSE H

\* GameState.check_game_over
check_game_over(H, g) ==
  LET G == H.games[g]
      human == H.players[G.human]
      ai == H.players[G.ai]
      human_has_cards ==
        Len(human.deck) > 0 \/ Len(human.hand) > 0 \/ human.field # None
      ai_has_cards == Len(ai.deck) > 0 \/ Len(ai.hand) > 0 \/ ai.field # None
      Over(w) == [H EXCEPT !.games[g].game_over = TRUE, !.games[g].winner = w]
  IN  IF human.life_points <= 0 THEN Over(G.ai)
      ELSE IF ai.life_points <= 0 THEN Over(G.human)
      ELSE IF ~human_has_cards THEN Over(G.ai)
      ELSE IF ~ai_has_cards THEN Over(G.human)
      ELSE H

\* the description strings of resolve_battle: <<text>> or <<text, damage, text>>
BattleDescription(attacker, outcome, damage) ==
  CASE outcome = "win_atk" ->
         IF attacker = "human" THEN <<"Ganaste! Infliges ", damage, " de dano.">>
         ELSE <<"Perdiste! Recibes ", damage, " de dano.">>
    [] outcome = "win_def" ->
         IF attacker = "human"
         THEN <<"Ganaste! La carta enemiga en DEF fue destruida.">>
         ELSE <<"Perdiste! Tu carta en DEF fue destruida.">>
    [] outcome = "lose_atk" ->
         IF attacker = "human" THEN <<"Perdiste! Recibes ", damage, " de dano.">>
         ELSE <<"Ganaste! La IA recibe ", damage, " de dano.">>
    [] outcome = "rebound" ->
         IF attacker = "human"
         THEN <<"Rebote! Tu ATK es menor, recibes ", damage, " de dano.">>
         ELSE <<"Defendiste! La IA recibe ", damage, " de dano de rebote.">>
    [] outcome = "tie_atk" -> <<"Empate! Ambas cartas fueron destruidas.">>
    [] OTHER -> <<"Empate! ATK = DEF, nada sucede.">>

\* step 1 with the attacker's base taken from its stance (get_battle_value)
BattleValues_stance(attacker_card, defender_card) ==
  LET Values(attacker_star_bonus, defender_star_bonus) ==
        [attacker_bonus |-> attacker_star_bonus,
         defender_bonus |-> defender_star_bonus,
         attacker_value |-> Card_get_battle_value(attacker_card)
                              + attacker_star_bonus,
         defender_value |-> Card_get_battle_value(defender_card)
                              + defender_star_bonus]
  IN  Values(calculate_star_bonus(attacker_card.selected_star,
                                  defender_card.selected_star),
             calculate_star_bonus(defender_card.selected_star,
                                  attacker_card.selected_star))

\* the values of a battle (resolve_battle, step 1), on card records
BattleValues(attacker_card, defender_card) ==
  LET defender_base == IF defender_card.position = "ATK"
                       THEN defender_card.atk ELSE defender_card.defense
      Values(attacker_star_bonus, defender_star_bonus) ==
        [attacker_bonus |-> attacker_star_bonus,
         defender_bonus |-> defender_star_bonus,
         attacker_value |-> attacker_card.atk + attacker_star_bonus,
         defender_value |-> defender_base + defender_star_bonus]
  IN  Values(calculate_star_bonus(attacker_card.selected_star,
                                  defender_card.selected_star),
             calculate_star_bonus(defender_card.selected_star,
                                  attacker_card.selected_star))

\* the card of player p goes from the field to the graveyard
Destroy(H, p) ==
  [H EXCEPT !.players[p].graveyard = Append(@, H.players[p].field),
            !.players[p].field = None]

\* player p loses d life points
Damage(H, p, d) == [H EXCEPT !.players[p].life_points = @ - d]

\* attacker_value > defender_value with a Defense-stance card left in place
AttackerWins_spare(H, defender_player, defender_position, damage) ==
  IF defender_position = "ATK"
  THEN Destroy(Damage(H, defender_player, damage), defender_player)
  ELSE H

\* resolve_battle, attacker_value > defender_value
AttackerWins(H, defender_player, defender_position, damage) ==
  IF defender_position = "ATK"
  THEN Destroy(Damage(H, defender_player, damage), defender_player)
  ELSE Destroy(H, defender_player)

\* defender_value > attacker_value with the attacker's card always kept
DefenderWins_keep(H, attacker_player, defender_position, damage) ==
  Damage(H, attacker_player, damage)

\* defender_value > attacker_value with the attacker's card always destroyed
DefenderWins_destroy(H, attacker_player, defender_position, damage) ==
  Destroy(Damage(H, attacker_player, damage), attacker_player)

\* resolve_battle, defender_value > attacker_value
DefenderWins(H, attacker_player, defender_position, damage) ==
  IF defender_position = "ATK"
  THEN Destroy(Damage(H, attacker_player, damage), attacker_player)
  ELSE Damage(H, attacker_player, damage)

\* equal values with both cards destroyed in either stance
BattleTie_destroy(H, human_player, ai_player, defender_position) ==
  Destroy(Destroy(H, human_player), ai_player)

\* resolve_battle, equal values
BattleTie(H, human_player, ai_player, defender_position) ==
  IF defender_position = "ATK"
  THEN Destroy(Destroy(H, human_player), ai_player)
  ELSE H

\* step 4 with the log replaced by the new record instead of extended
RecordBattle_overwrite(H, g, result) ==
  [H EXCEPT !.games[g].battle_log = <<result>>,
            !.games[g].last_battle_result = <<result>>]

\* resolve_battle, step 4: the result is logged and remembered
RecordBattle(H, g, result) ==
  [H EXCEPT !.games[g].battle_log = Append(@, result),
            !.games[g].last_battle_result = <<result>>]

\* GameState.resolve_battle: <<result>> or <<>> (None)
resolve_battle(H, g, attacker) ==
  LET G == H.games[g]
      hp == G.human
      ap == G.ai
  IN
  IF H.players[hp].field = None \/ H.players[ap].field = None THEN R(H, <<>>)
  ELSE
    LET human_card == H.cards[H.players[hp].field]
        ai_card == H.cards[H.players[ap].field]
        attacker_player == IF attacker = "human" THEN hp ELSE ap
        defender_player == IF attacker = "human" THEN ap ELSE hp
        attacker_card == IF attacker = "human" THEN human_card ELSE ai_card
        defender_card == IF attacker = "human" THEN ai_card ELSE human_card
        other == IF attacker = "human" THEN "ai" ELSE "human"
        Outcome(v) ==
          IF v.attacker_value > v.defender_value
          THEN IF defender_card.position = "ATK" THEN "win_atk" ELSE "win_def"
          ELSE IF v.defender_value > v.attacker_value
          THEN IF defender_card.position = "ATK" THEN "lose_atk" ELSE "rebound"
          ELSE IF defender_card.position = "ATK" THEN "tie_atk" ELSE "tie_def"
        DamageOf(v, outcome) ==
          CASE outcome = "win_atk" -> v.attacker_value - v.defender_value
            [] outcome \in {"lose_atk", "rebound"} ->
                 v.defender_value - v.attacker_value
            [] OTHER -> 0
        Result(v, outcome, damage) ==
          [human_card |-> human_card.name, ai_card |-> ai_card.name,
           attacker |-> attacker,
           attacker_value |-> v.attacker_value,
           defender_value |-> v.defender_value,
           attacker_bonus |-> v.attacker_bonus,
           defender_bonus |-> v.defender_bonus,
           human_value |-> IF attacker = "human" THEN v.attacker_value
                           ELSE v.defender_value,
           ai_value |-> IF attacker = "human" THEN v.defender_value
                        ELSE v.attacker_value,
           human_star |-> human_card.selected_star,
           ai_star |-> ai_card.selected_star,
           human_position |-> human_card.position,
           ai_position |-> ai_card.position,
           defender_position |-> defender_card.position,
           damage |-> damage,
           winner |-> CASE outcome \in {"win_atk", "win_def"} -> attacker
                        [] outcome \in {"lose_atk", "rebound"} -> other
                        [] OTHER -> "tie",
           description |-> BattleDescription(attacker, outcome, damage)]
        Effects(v, damage) ==
          IF v.attacker_value > v.defender_value
          THEN AttackerWins(H, defender_player, defender_card.position, damage)
          ELSE IF v.defender_value > v.attacker_value
          THEN DefenderWins(H, attacker_player, defender_card.position, damage)
          ELSE BattleTie(H, hp, ap, defender_card.position)
        Log(H1, result) ==
          R(check_game_over(RecordBattle(H1, g, result), g), <<result>>)
        Decide(v, outcome, damage) ==
          Log(Effects(v, damage), Result(v, outcome, damage))
        Compare(v, outcome) == Decide(v, outcome, DamageOf(v, outcome))
        Battle(v) == Compare(v, Outcome(v))
    IN  Battle(BattleValues(attacker_card, defender_card))

\* next_turn counting every call as a new turn
next_turn_counting_calls(H, g) ==
  LET G == H.games[g]
      H1 == IF G.current_player = G.human
            THEN [H EXCEPT !.games[g].current_player = G.ai,
                           !.games[g].turn_number = @ + 1]
            ELSE [H EXCEPT !.games[g].current_player = G.human,
                           !.games[g].turn_number = @ + 1]
      H2 == draw_card(H1, H1.games[g].current_player).heap
  IN  R([H2 EXCEPT !.games[g].phase = "MAIN"], None)

\* GameState.next_turn
next_turn(H, g) ==
  LET G == H.games[g]
      H1 == IF G.current_player = G.human
            THEN [H EXCEPT !.games[g].current_player = G.ai]
            ELSE [H EXCEPT !.games[g].current_player = G.human,
                           !.games[g].turn_number = @ + 1]
      H2 == draw_card(H1, H1.games[g].current_player).heap
  IN  R([H2 EXCEPT !.games[g].phase = "MAIN"], None)

\* GameState.copy handing the winner of the original to the copy
GameState_copy_same_winner(H, g) ==
  LET G == H.games[g]
      Fill(n, human, ai) ==
        R([ai.heap EXCEPT
             !.games[n].turn_number = G.turn_number,
             !.games[n].game_over = G.game_over,
             !.games[n].phase = G.phase,
             !.games[n].human = human.ret,
             !.games[n].ai = ai.ret,
             !.games[n].current_player =
                 IF H.players[G.current_player].is_ai THEN ai.ret
                 ELSE human.ret,
             !.games[n].winner = G.winner], n)
      CopyAi(n, human) ==
        IF human.raised THEN human
        ELSE Fill(n, human, Player_copy(human.heap, G.ai))
      CopyHuman(new_state) ==
        IF new_state.raised THEN new_state
        ELSE CopyAi(new_state.ret, Player_copy(new_state.heap, G.human))
  IN  CopyHuman(GameState(H, G.deck_size))

\* GameState.copy
GameState_copy(H, g) ==
  LET G == H.games[g]
      Fill(n, human, ai) ==
        R([ai.heap EXCEPT
             !.games[n].turn_number = G.turn_number,
             !.games[n].game_over = G.game_over,
             !.games[n].phase = G.phase,
             !.games[n].human = human.ret,
             !.games[n].ai = ai.ret,
             !.games[n].current_player =
                 IF H.players[G.current_player].is_ai THEN ai.ret
                 ELSE human.ret,
             !.games[n].winner =
                 IF G.winner # None
                 THEN (IF H.players[G.winner].is_ai THEN ai.ret ELSE human.ret)
                 ELSE None], n)
      CopyAi(n, human) ==
        IF human.raised THEN human
        ELSE Fill(n, human, Player_copy(human.heap, G.ai))
      CopyHuman(new_state) ==
        IF new_state.raised THEN new_state
        ELSE CopyAi(new_state.ret, Player_copy(new_state.heap, G.human))
  IN  CopyHuman(GameState(H, G.deck_size))

\* get_possible_actions offering a pass only to a player with a card on the
\* field
get_possible_actions_pass_on_field_only(H, g, player) ==
  LET P == H.players[player]
      Plays(i) ==
        LET name == H.cards[P.hand[i + 1]].name IN
        << [type |-> "play", index |-> i, position |-> "ATK", star |-> 1,
            card_name |-> name],
           [type |-> "play", index |-> i, position |-> "ATK", star |-> 2,
            card_name |-> name],
           [type |-> "play", index |-> i, position |-> "DEF", star |-> 1,
            card_name |-> name],
           [type |-> "play", index |-> i, position |-> "DEF", star |-> 2,
            card_name |-> name] >>
      RECURSIVE AllPlays(_)
      AllPlays(i) == IF i >= Len(P.hand) THEN <<>>
                     ELSE Plays(i) \o AllPlays(i + 1)
      Fuses(fusions) ==
        [k \in 1..Len(fusions) |->
           [type |-> "fuse", idx1 |-> fusions[k][1], idx2 |-> fusions[k][2],
            result_name |-> fusions[k][3].name]]
      AndPass(actions) ==
        IF P.field # None THEN Append(actions, [type |-> "pass"]) ELSE actions
  IN  AndPass(AllPlays(0) \o Fuses(get_possible_fusions(H, player)))

\* GameState.get_possible_actions(player)
get_possible_actions(H, g, player) ==
  LET P == H.players[player]
      Plays(i) ==
        LET name == H.cards[P.hand[i + 1]].name IN
        << [type |-> "play", index |-> i, position |-> "ATK", star |-> 1,
            card_name |-> name],
           [type |-> "play", index |-> i, position |-> "ATK", star |-> 2,
            card_name |-> name],
           [type |-> "play", index |-> i, position |-> "DEF", star |-> 1,
            card_name |-> name],
           [type |-> "play", index |-> i, position |-> "DEF", star |-> 2,
            card_name |-> name] >>
      RECURSIVE AllPlays(_)
      AllPlays(i) == IF i >= Len(P.hand) THEN <<>>
                     ELSE Plays(i) \o AllPlays(i + 1)
      Fuses(fusions) ==
        [k \in 1..Len(fusions) |->
           [type |-> "fuse", idx1 |-> fusions[k][1], idx2 |-> fusions[k][2],
            result_name |-> fusions[k][3].name]]
      OrPass(actions) ==
        IF actions = <<>> THEN <<[type |-> "pass"]>> ELSE actions
      AndPass(actions) ==
        IF P.field # None THEN Append(actions, [type |-> "pass"]) ELSE actions
  IN  AndPass(OrPass(AllPlays(0) \o Fuses(get_possible_fusions(H, player))))

\* GameState.apply_action(player, action)
apply_action(H, g, player, action) ==
  IF action.type = "play"
  THEN R(play_card(H, player, action.index, action.position, action.star).heap,
         None)
  ELSE IF action.type = "fuse"
  THEN LET Done(f) == [heap |-> f.heap, ret |-> None, raised |-> f.raised]
       IN  Done(fuse_cards(H, player, action.idx1, action.idx2))
  ELSE R(H, None)

\* random.shuffle(list): the lists it may leave, which are all the orders
\* of the same objects
RECURSIVE shuffle(_)
shuffle(list) ==
  IF list = <<>> THEN {<<>>}
  ELSE UNION {{<<list[k]>> \o rest :
                  rest \in shuffle(SubSeq(list, 1, k - 1)
                                   \o SubSeq(list, k + 1, Len(list)))} :
                k \in DOMAIN list}

\* list[a:b] for 0 <= a <= b
Slice(list, a, b) == SubSeq(list, Min2(a, Len(list)) + 1, Min2(b, Len(list)))

\* for _ in range(5) of setup_game
InitialDraws == 5

\* for _ in range(k): self.human.draw_card(); self.ai.draw_card()
RECURSIVE DrawInitial(_, _, _)
DrawInitial(H, g, k) ==
  IF k = 0 THEN H
  ELSE DrawInitial(draw_card(draw_card(H, H.games[g].human).heap,
                             H.games[g].ai).heap, g, k - 1)

\* GameState.setup_game(): the heaps it may leave, one for every outcome of
\* its random.shuffle calls.  all_cards * 2 is the list followed by itself:
\* the same Card objects a second time.
setup_game(H, g) ==
  LET deck_size == H.games[g].deck_size
      \* if len(all_cards) < self.deck_size * 2: all_cards = all_cards * 2;
      \* random.shuffle(all_cards)
      Enough(all_cards) ==
        IF Len(all_cards) < deck_size * 2 THEN shuffle(all_cards \o all_cards)
        ELSE {all_cards}
      \* the five draws of each player and self.phase = "MAIN"
      Drawn(H1, human_deck, ai_deck) ==
        [DrawInitial([H1 EXCEPT !.players[H.games[g].human].deck = human_deck,
                                !.players[H.games[g].ai].deck = ai_deck],
                     g, InitialDraws)
           EXCEPT !.games[g].phase = "MAIN"]
      \* self.human.deck = all_cards[:deck_size]; self.ai.deck =
      \* all_cards[deck_size:deck_size * 2]; random.shuffle of each deck
      Dealt(H1, all_cards) ==
        {Drawn(H1, human_deck, ai_deck) :
           human_deck \in shuffle(Slice(all_cards, 0, deck_size)),
           ai_deck \in shuffle(Slice(all_cards, deck_size, deck_size * 2))}
      \* all_cards = get_all_cards(); random.shuffle(all_cards)
      Deal(all) ==
        UNION {Dealt(all.heap, all_cards) :
                 all_cards \in UNION {Enough(first) : first \in shuffle(all.ret)}}
  IN  Deal(get_all_cards(H))

(***************************************************************************)
(* minimax.py: MinimaxAI.  A score is a Python float, an IEEE-754 double.  *)
(* In exact arithmetic every score is a whole number of twentieths (the    *)
(* weights are 1.5, 0.5, 0.3, 0.15, 0.1 and 0.05); the double differs from *)
(* it by the rounding of each product and each sum.  A float x is kept as  *)
(* the record [t, d] with                                                  *)
(*      x = t / 20 + d * 2^-61 / 5                                         *)
(* where t is the exact value in twentieths and d the rounding error the   *)
(* double carries; an int n is [t |-> 20 * n, d |-> 0].  The fusion        *)
(* potential, a sum of 1 + improvement / 500, is kept in the same way in   *)
(* 500ths: x = t / 500 + d * 2^-61 / 125.  Every operation rounds its      *)
(* exact result to the nearest double, ties to even.                       *)
(***************************************************************************)
Float(t, d) == [t |-> t, d |-> d]

\* an int among floats
IntScore(n) == Float(20 * n, 0)

\* math.inf: above every score
Inf == 1000000000

\* math.inf and -math.inf as scores
PlusInf == Float(Inf, 0)

MinusInf == Float(-Inf, 0)

\* a < b on floats: d is far below one unit of t
Less(a, b) == a.t < b.t \/ (a.t = b.t /\ a.d < b.d)

\* max(a, b) and min(a, b) on floats
FloatMax(a, b) == IF Less(a, b) THEN b ELSE a

FloatMin(a, b) == IF Less(b, a) THEN b ELSE a

\* the binary exponent of x = t / D + d * 2^-61 / (D / 4), t > 0: the
\* largest E <= top with 2^E <= x
RECURSIVE Exponent(_, _, _, _)
Exponent(t, d, D, top) ==
  IF (IF top >= 0
      THEN t > D * 2^top \/ (t = D * 2^top /\ d >= 0)
      ELSE t * 2^(-top) > D \/ (t * 2^(-top) = D /\ d >= 0))
  THEN top
  ELSE Exponent(t, d, D, top - 1)

\* no score reaches 2^(TopExponent + 1)
TopExponent == 17

\* 2^k modulo q, 0 <= k <= 60
Pow2Mod(k, q) ==
  IF k <= 30 THEN 2^k % q ELSE ((2^30 % q) * (2^(k - 30) % q)) % q

\* the part of x below the place 2^(s - 61), in units of 2^-61 / q:
\* (t * 2^59 + d) modulo q * 2^s
LowPart(t, d, q, s) ==
  (d + 2^s * (((t % q) * Pow2Mod(59 - s, q)) % q)) % (q * 2^s)

\* the rounding error of the double nearest to x = t / D + d * 2^-61 / q,
\* t > 0: a double of exponent E is a multiple of 2^(E - 52); x is rounded
\* down, or up, to the nearer multiple, and to the even one when half way
Nearest(t, d, D) ==
  LET q == D \div 4
      Rounded(s, low) ==
        IF \/ 2 * low > q * 2^s
           \/ 2 * low = q * 2^s /\ LowPart(t, d, q, s + 1) >= q * 2^s
        THEN d + (q * 2^s - low)
        ELSE d - low
      At(s) == Rounded(s, LowPart(t, d, q, s))
  IN  At(Max2(Exponent(t, d, D, TopExponent) + 9, 0))

\* the double nearest to t / D + d * 2^-61 / (D / 4)
RoundToDouble(t, d, D) ==
  IF t = 0 THEN Float(t, d)
  ELSE IF t > 0 THEN Float(t, Nearest(t, d, D))
  ELSE Float(t, -Nearest(-t, -d, D))

\* the doubles of the literals 1.5, 0.5, 0.3, 0.15, 0.1 and 0.05
Weight_1_5 == Float(30, 0)

Weight_0_5 == Float(10, 0)

Weight_0_3 == Float(6, -128)

Weight_0_15 == Float(3, -64)

Weight_0_1 == Float(2, 64)

Weight_0_05 == Float(1, 32)

\* n * weight for an int n
Times(n, weight) == RoundToDouble(n * weight.t, n * weight.d, 20)

\* score + x and score - x
Plus(score, x) == RoundToDouble(score.t + x.t, score.d + x.d, 20)

Minus(score, x) == RoundToDouble(score.t - x.t, score.d - x.d, 20)

\* sum(max(c.atk, c.defense) for c in hand)
RECURSIVE HandPower(_)
HandPower(hand) ==
  IF hand = <<>> THEN 0
  ELSE Max2(Head(hand).atk, Head(hand).defense) + HandPower(Tail(hand))

\* max((c.atk for c in hand), default=0)
RECURSIVE BestAtk(_)
BestAtk(hand) ==
  IF hand = <<>> THEN 0
  ELSE IF Tail(hand) = <<>> THEN Head(hand).atk
  ELSE Max2(Head(hand).atk, BestAtk(Tail(hand)))

\* MinimaxAI._count_fusion_potential, a float in 500ths:
\* fusion_value += 1 + (improvement / 500) for the pairs i < j in order
count_fusion_potential(hand) ==
  LET OnePlus(quotient) ==
        RoundToDouble(500 + quotient.t, quotient.d, 500)
      Added(fusion_value, term) ==
        RoundToDouble(fusion_value.t + term.t, fusion_value.d + term.d, 500)
      Value(fusion_value, i, j, result) ==
        IF result # <<>>
           /\ result[1].atk - Max2(hand[i + 1].atk, hand[j + 1].atk) > 0
        THEN Added(fusion_value,
                   OnePlus(RoundToDouble(
                     result[1].atk - Max2(hand[i + 1].atk, hand[j + 1].atk),
                     0, 500)))
        ELSE fusion_value
      RECURSIVE Scan(_, _, _)
      Scan(i, j, fusion_value) ==
        IF i >= Len(hand) THEN fusion_value
        ELSE IF j >= Len(hand) THEN Scan(i + 1, i + 2, fusion_value)
        ELSE Scan(i, j + 1,
                  Value(fusion_value, i, j,
                        check_fusion_by_cards(hand[i + 1], hand[j + 1])))
  IN  IF Len(hand) < 2 THEN Float(0, 0) ELSE Scan(0, 1, Float(0, 0))

\* evaluate, factor 1: the life totals
LifeDifference(score, human, ai) ==
  Plus(score, Times(ai.life_points - human.life_points, Weight_1_5))

\* evaluate, factor 2: who holds the field and who would win the battle
FieldControl(score, H, human, ai) ==
  LET Both(ai_value, human_value) ==
        IF ai_value > human_value
        THEN IF H.cards[human.field].position = "ATK"
             THEN Plus(Plus(score, Times(ai_value - human_value, Weight_0_5)),
                       IntScore(200))
             ELSE Plus(score, Times(ai_value - human_value, Weight_0_5))
        ELSE IF H.cards[ai.field].position = "ATK"
             THEN Minus(Minus(score,
                              Times(human_value - ai_value, Weight_0_5)),
                        IntScore(200))
             ELSE Minus(score, Times(human_value - ai_value, Weight_0_5))
  IN  IF ai.field # None /\ human.field = None
      THEN Plus(score, Times(H.cards[ai.field].atk, Weight_0_3))
      ELSE IF human.field # None /\ ai.field = None
      THEN Minus(score, Times(H.cards[human.field].atk, Weight_0_3))
      ELSE IF ai.field # None /\ human.field # None
      THEN Both(get_battle_value(H, ai.field, human.field),
                get_battle_value(H, human.field, ai.field))
      ELSE score

\* evaluate, factor 3: the cards in hand
HandQuality(score, ai_hand, human_hand) ==
  Plus(Plus(score,
            Times(HandPower(ai_hand) - HandPower(human_hand), Weight_0_1)),
       Times(BestAtk(ai_hand) - BestAtk(human_hand), Weight_0_15))

\* evaluate, factor 4: the number of cards in hand and in the deck
CardAdvantage(score, human, ai) ==
  Plus(Plus(score, IntScore((Len(ai.hand) - Len(human.hand)) * 75)),
       IntScore((Len(ai.deck) - Len(human.deck)) * 25))

\* evaluate, factor 5: (ai_fusions - human_fusions) * 150, the difference
\* being a float in 500ths
FusionPotential(score, ai_fusions, human_fusions) ==
  LET Times150(difference) ==
        RoundToDouble(6 * difference.t, 6 * difference.d, 20)
  IN  Plus(score,
           Times150(RoundToDouble(ai_fusions.t - human_fusions.t,
                                  ai_fusions.d - human_fusions.d, 500)))

\* evaluate, factor 6: the next card of each deck
NextCards(score, H, human, ai) ==
  LET Best(c) == Max2(H.cards[c].atk, H.cards[c].defense)
      ThenHuman(after_ai) ==
        IF human.deck # <<>>
        THEN Minus(after_ai, Times(Best(human.deck[1]), Weight_0_05))
        ELSE after_ai
  IN  ThenHuman(IF ai.deck # <<>>
                THEN Plus(score, Times(Best(ai.deck[1]), Weight_0_05))
                ELSE score)

\* evaluate, factor 7: life below 2000
LowLifePenalty(score, human, ai) ==
  LET ThenHuman(after_ai) ==
        IF human.life_points < 2000
        THEN Plus(after_ai, Times(2000 - human.life_points, Weight_0_5))
        ELSE after_ai
  IN  ThenHuman(IF ai.life_points < 2000
                THEN Minus(score, Times(2000 - ai.life_points, Weight_0_5))
                ELSE score)

\* the seven factors of evaluate added to score = 0, in the order of the
\* source
Factors(H, human, ai) ==
  LowLifePenalty(
    NextCards(
      FusionPotential(
        CardAdvantage(
          HandQuality(
            FieldControl(LifeDifference(IntScore(0), human, ai), H, human, ai),
            CardsAt(H, ai.hand), CardsAt(H, human.hand)),
          human, ai),
        count_fusion_potential(CardsAt(H, ai.hand)),
        count_fusion_potential(CardsAt(H, human.hand))),
      H, human, ai),
    human, ai)

\* evaluate weighing a finished game like any other state
evaluate_unfinished(H, state) ==
  Factors(H, H.players[H.games[state].human], H.players[H.games[state].ai])

\* MinimaxAI.evaluate(state)
evaluate(H, state) ==
  LET G == H.games[state]
  IN  IF G.game_over
      THEN IF G.winner # None /\ H.players[G.winner].is_ai
           THEN IntScore(100000)
           ELSE IF G.winner # None THEN IntScore(-100000)
           ELSE IntScore(0)
      ELSE Factors(H, H.players[G.human], H.players[G.ai])

\* the action applied to the state itself, without a copy
Child_in_place(H, state, action, is_maximizing) ==
  LET mover == IF is_maximizing THEN "ai" ELSE "human"
      Battle(H2) ==
        IF Human(H2, state).field # None /\ Ai(H2, state).field # None
        THEN R(resolve_battle(H2, state, mover).heap, state)
        ELSE R(H2, state)
  IN  Battle(apply_action(H, state, PlayerOf(H, state, mover), action).heap)

\* one child of a node: new_state = state.copy(), the action applied to
\* new_state, and the battle when both fields are occupied; ret is new_state
Child(H, state, action, is_maximizing) ==
  LET mover == IF is_maximizing THEN "ai" ELSE "human"
      Battle(H2, new_state) ==
        IF Human(H2, new_state).field # None /\ Ai(H2, new_state).field # None
        THEN R(resolve_battle(H2, new_state, mover).heap, new_state)
        ELSE R(H2, new_state)
      Apply(copy) ==
        IF copy.raised THEN copy
        ELSE Battle(apply_action(copy.heap, copy.ret,
                                 PlayerOf(copy.heap, copy.ret, mover),
                                 action).heap,
                    copy.ret)
  IN  Apply(GameState_copy(H, state))

\* eval_score > max_eval for MAX, eval_score < min_eval for MIN
Improves(eval_score, best_eval, is_maximizing) ==
  IF is_maximizing THEN Less(best_eval, eval_score)
  ELSE Less(eval_score, best_eval)

\* the cut as soon as both bounds are known
Cutoff_eager(alpha, beta) == Less(MinusInf, alpha) /\ Less(beta, PlusInf)

\* if beta <= alpha: break
Cutoff(alpha, beta) == ~Less(alpha, beta)

\* every child searched one level lower
ChildDepth_always_lower(action, depth) == depth - 1

\* the depth of the recursive call on the child of an action: depth for a
\* fuse, depth - 1 for a play or a pass
ChildDepth(action, depth) ==
  IF action.type = "fuse" THEN depth ELSE depth - 1

\* every child searched for the other player
ChildRole_always_flipped(action, is_maximizing) == ~is_maximizing

\* the is_maximizing of the recursive call on the child of an action: the
\* mover's own for a fuse, the opponent's for a play or a pass
ChildRole(action, is_maximizing) ==
  IF action.type = "fuse" THEN is_maximizing ELSE ~is_maximizing

RECURSIVE minimax_at(_, _, _, _, _)

\* the loop "for action in actions" of minimax on the state node.ret of the
\* heap node.heap.  The loop state is the heap, alpha, beta, max_eval or
\* min_eval (value), best_action, and whether the loop is left by break
\* (done); Loop(lo, hi, _) runs the iterations lo..hi in order.
SearchActions(node, depth, alpha, beta, is_maximizing, actions) ==
  LET Update(acc, action, res) ==
        [heap |-> res.heap,
         alpha |-> IF is_maximizing THEN FloatMax(acc.alpha, res.value)
                   ELSE acc.alpha,
         beta |-> IF is_maximizing THEN acc.beta
                  ELSE FloatMin(acc.beta, res.value),
         value |-> IF Improves(res.value, acc.value, is_maximizing)
                   THEN res.value ELSE acc.value,
         action |-> IF Improves(res.value, acc.value, is_maximizing)
                    THEN <<action>> ELSE acc.action,
         done |-> Cutoff(IF is_maximizing THEN FloatMax(acc.alpha, res.value)
                         ELSE acc.alpha,
                         IF is_maximizing THEN acc.beta
                         ELSE FloatMin(acc.beta, res.value))]
      RECURSIVE Loop(_, _, _)
      Rest(lo, hi, first) ==
        IF first.done THEN first ELSE Loop(lo, hi, first)
      Loop(lo, hi, acc) ==
        IF lo = hi
        THEN Update(acc, actions[lo],
                    minimax_at(Child(acc.heap, node.ret, actions[lo],
                                     is_maximizing),
                               ChildDepth(actions[lo], depth),
                               acc.alpha, acc.beta,
                               ChildRole(actions[lo], is_maximizing)))
        ELSE Rest((lo + hi) \div 2 + 1, hi, Loop(lo, (lo + hi) \div 2, acc))
  IN  IF actions = <<>>
      THEN [heap |-> node.heap, value |-> evaluate(node.heap, node.ret),
            action |-> <<>>]
      ELSE Loop(1, Len(actions),
                [heap |-> node.heap, alpha |-> alpha, beta |-> beta,
                 value |-> IF is_maximizing THEN MinusInf ELSE PlusInf,
                 action |-> <<actions[1]>>, done |-> FALSE])

\* MinimaxAI.minimax on the state node.ret of the heap node.heap: the heap
\* after the search, the value (max_eval, min_eval or the evaluation) and the
\* action, <<>> for None
minimax_at(node, depth, alpha, beta, is_maximizing) ==
  IF depth = 0 \/ node.heap.games[node.ret].game_over
  THEN [heap |-> node.heap, value |-> evaluate(node.heap, node.ret),
        action |-> <<>>]
  ELSE SearchActions(node, depth, alpha, beta, is_maximizing,
                     get_possible_actions(
                       node.heap, node.ret,
                       PlayerOf(node.heap, node.ret,
                                IF is_maximizing THEN "ai" ELSE "human")))

\* MinimaxAI.minimax(state, depth, alpha, beta, is_maximizing): the heap
\* after the search, the value and the action, <<>> for None
minimax(H, state, depth, alpha, beta, is_maximizing) ==
  LET Return(res) ==
        [heap |-> res.heap, value |-> res.value, action |-> res.action]
  IN  Return(minimax_at(R(H, state), depth, alpha, beta, is_maximizing))

\* MinimaxAI._check_for_valuable_fusion on the AI's hand: <<action>> or <<>>
check_for_valuable_fusion(hand) ==
  LET Improvement(i, j, result) ==
        result[1].atk - Max2(hand[i + 1].atk, hand[j + 1].atk)
      Better(i, j, result, best) ==
        IF /\ result # <<>>
           /\ (Improvement(i, j, result) > 500 \/ result[1].atk >= 2500)
           /\ Improvement(i, j, result) > best.improvement
        THEN [improvement |-> Improvement(i, j, result),
              fusion |-> <<[type |-> "fuse", idx1 |-> i, idx2 |-> j,
                            result_name |-> result[1].name]>>]
        ELSE best
      RECURSIVE Scan(_, _, _)
      Scan(i, j, best) ==
        IF i >= Len(hand) THEN best.fusion
        ELSE IF j >= Len(hand) THEN Scan(i + 1, i + 2, best)
        ELSE Scan(i, j + 1,
                  Better(i, j, check_fusion_by_cards(hand[i + 1], hand[j + 1]),
                         best))
  IN  Scan(0, 1, [improvement |-> 0, fusion |-> <<>>])

\* the second star whenever it is not worse than the first
select_best_star_second_on_ties(card, opponent_field) ==
  IF opponent_field = <<>> THEN 1
  ELSE IF calculate_star_bonus(card.star2, opponent_field[1].selected_star)
            >= calculate_star_bonus(card.star1, opponent_field[1].selected_star)
  THEN 2 ELSE 1

\* MinimaxAI._select_best_star, opponent_field being <<card>> or <<>>
select_best_star(card, opponent_field) ==
  LET Pick(bonus1, bonus2) ==
        IF bonus1 > bonus2 THEN 1 ELSE IF bonus2 > bonus1 THEN 2 ELSE 1
  IN  IF opponent_field = <<>> THEN 1
      ELSE Pick(calculate_star_bonus(card.star1, opponent_field[1].selected_star),
                calculate_star_bonus(card.star2, opponent_field[1].selected_star))

\* the larger of the card's own two values, whatever the opponent shows
select_best_position_own_values(card, opponent_field) ==
  IF card.defense > card.atk THEN "DEF" ELSE "ATK"

\* MinimaxAI._select_best_position
select_best_position(card, opponent_field) ==
  IF opponent_field = <<>> THEN (IF card.atk >= 1500 THEN "ATK" ELSE "DEF")
  ELSE IF card.atk > opponent_field[1].atk THEN "ATK"
  ELSE IF card.defense >= opponent_field[1].atk THEN "DEF"
  ELSE IF card.defense > card.atk THEN "DEF" ELSE "ATK"

\* the refined action with the hand index counted from 1
optimize_play_action_from_one(H, state, action) ==
  LET Optimized(card, opponent_field) ==
        [type |-> "play", index |-> action.index + 1,
         position |-> select_best_position(card, opponent_field),
         star |-> select_best_star(card, opponent_field),
         card_name |-> card.name]
  IN  IF action.type # "play" THEN action
      ELSE Optimized(H.cards[Ai(H, state).hand[action.index + 1]],
                     IF Human(H, state).field # None
                     THEN <<H.cards[Human(H, state).field]>> ELSE <<>>)

\* MinimaxAI._optimize_play_action
optimize_play_action(H, state, action) ==
  LET Optimized(card, opponent_field) ==
        [type |-> "play", index |-> action.index,
         position |-> select_best_position(card, opponent_field),
         star |-> select_best_star(card, opponent_field),
         card_name |-> card.name]
  IN  IF action.type # "play" THEN action
      ELSE Optimized(H.cards[Ai(H, state).hand[action.index + 1]],
                     IF Human(H, state).field # None
                     THEN <<H.cards[Human(H, state).field]>> ELSE <<>>)

\* MinimaxAI.get_best_move(state) of an AI built with max_depth: the heap
\* after the call and the action, <<>> for None
get_best_move(H, state, max_depth) ==
  LET Refine(res) ==
        [heap |-> res.heap,
         action |-> IF res.action # <<>> /\ res.action[1].type = "play"
                    THEN <<optimize_play_action(res.heap, state, res.action[1])>>
                    ELSE res.action]
      Decide(good_fusion) ==
        IF good_fusion # <<>> THEN [heap |-> H, action |-> good_fusion]
        ELSE Refine(minimax(H, state, max_depth, MinusInf, PlusInf, TRUE))
  IN  Decide(check_for_valuable_fusion(CardsAt(H, Ai(H, state).hand)))

(***************************************************************************)
(* The engine as a state machine: a match S (game 1) is under way, any     *)
(* engine operation may be called on it in any order, S may be copied      *)
(* once, and from then on the operations are called on the copy (game 2).  *)
(* The positions the checks start from are late ones: few cards are left   *)
(* in the decks, and every card is an object of its own.                   *)
(***************************************************************************)
MaxSteps == 4

Sides == {"human", "ai"}

Positions == {"ATK", "DEF"}

StarNums == {1, 2}

\* deck_size=20 of GameState.__init__
DefaultDeckSize == 20

\* the draws each player has made in the positions the checks start from
EarlyDraws == 2

\* player.deck = [get_card_by_name(name) for name in names]
Pile(H, names) ==
  LET RECURSIVE Loop(_)
      Loop(cards) ==
        IF Len(cards.ret) = Len(names) THEN cards
        ELSE Loop(Add(cards,
                      get_card_by_name(cards.heap, names[Len(cards.ret) + 1])))
  IN  Loop(R(H, <<>>))

\* a match under way, as the engine and the search are handed it: a
\* GameState() whose players hold copies of the named cards, the first
\* EarlyDraws of them drawn into the hand, in the MAIN phase
MatchWith(human_deck, ai_deck) ==
  LET Decks(g, hd, ad) ==
        [ad.heap EXCEPT !.players[ad.heap.games[g].human].deck = hd.ret,
                        !.players[ad.heap.games[g].ai].deck = ad.ret]
      DealAi(g, hd) == Decks(g, hd, Pile(hd.heap, ai_deck))
      Given(game) ==
        [DrawInitial(DealAi(game.ret, Pile(game.heap, human_deck)), game.ret,
                     EarlyDraws)
           EXCEPT !.games[game.ret].phase = "MAIN"]
  IN  Given(GameState(EmptyHeap, DefaultDeckSize))

\* the cards of the two players: two disjoint lists of cards of the data set
Deals ==
  { << <<"Sol Knight", "Moon Fiend", "Stone Wall">>,
       <<"Sun Soldier", "Twilight Dragon", "Tide Serpent">> >> }

NoCall == <<>>

Init ==
  /\ \E d \in Deals : heap = MatchWith(d[1], d[2])
  /\ last = [op |-> "match", g |-> 1, ret |-> None, raised |-> FALSE]
  /\ steps = 0
  /\ call = NoCall

\* the game the caller works on: S, or its copy once there is one
Games == {Len(heap.games)}

\* one engine call on game g
Step(op, g, res) ==
  /\ steps < MaxSteps
  /\ heap' = res.heap
  /\ last' = [op |-> op, g |-> g, ret |-> res.ret, raised |-> res.raised]
  /\ steps' = steps + 1
  /\ UNCHANGED call

DrawCard(g, side) == Step("draw_card", g, draw_card(heap, PlayerOf(heap, g, side)))

PlayCard(g, side, hand_index, position, star_num) ==
  Step("play_card", g,
       play_card(heap, PlayerOf(heap, g, side), hand_index, position, star_num))

UndoPlayCard(g, side) ==
  Step("undo_play_card", g, undo_play_card(heap, PlayerOf(heap, g, side)))

FuseCards(g, side, idx1, idx2) ==
  Step("fuse_cards", g, fuse_cards(heap, PlayerOf(heap, g, side), idx1, idx2))

ResolveBattle(g, attacker) ==
  Step("resolve_battle", g, resolve_battle(heap, g, attacker))

NextTurn(g) == Step("next_turn", g, next_turn(heap, g))

CopyState ==
  /\ Len(heap.games) = 1
  /\ Step("copy", 1, GameState_copy(heap, 1))

\* the cards a game owns
CardsOfPlayer(P) ==
  {P.deck[k] : k \in DOMAIN P.deck} \cup {P.hand[k] : k \in DOMAIN P.hand}
  \cup {P.graveyard[k] : k \in DOMAIN P.graveyard}
  \cup (IF P.field # None THEN {P.field} ELSE {})

CardsOfGame(H, g) == CardsOfPlayer(Human(H, g)) \cup CardsOfPlayer(Ai(H, g))

\* a caller changes the stance and the active star of a card of the copy
TouchCard(g, c, position, star_num) ==
  /\ g > 1
  /\ c \in CardsOfGame(heap, g)
  /\ Step("touch_card", g,
          R(select_star(set_position(heap, c, position), c, star_num), None))

HandIdx(g, side) == -1..Len(heap.players[PlayerOf(heap, g, side)].hand)

Next ==
  \/ \E g \in Games, side \in Sides : DrawCard(g, side)
  \/ \E g \in Games, side \in Sides, position \in Positions, star_num \in StarNums :
       \E i \in HandIdx(g, side) : PlayCard(g, side, i, position, star_num)
  \/ \E g \in Games, side \in Sides : UndoPlayCard(g, side)
  \/ \E g \in Games, side \in Sides :
       \E i, j \in HandIdx(g, side) : FuseCards(g, side, i, j)
  \/ \E g \in Games, attacker \in Sides : ResolveBattle(g, attacker)
  \/ \E g \in Games : NextTurn(g)
  \/ CopyState
  \/ \E g \in Games, c \in 1..Len(heap.cards), position \in Positions,
        star_num \in StarNums : TouchCard(g, c, position, star_num)

Spec == Init /\ [][Next]_vars

(***************************************************************************)
(* What a caller can observe of game g: every field, with references       *)
(* replaced by the objects they point to.                                  *)
(***************************************************************************)
PlayerView(H, p) ==
  LET P == H.players[p] IN
  [name |-> P.name, is_ai |-> P.is_ai, life_points |-> P.life_points,
   deck |-> CardsAt(H, P.deck), hand |-> CardsAt(H, P.hand),
   field |-> IF P.field # None THEN <<H.cards[P.field]>> ELSE <<>>,
   graveyard |-> CardsAt(H, P.graveyard)]

SideOf(H, g, p) ==
  IF p = None THEN "none"
  ELSE IF p = H.games[g].human THEN "human"
  ELSE IF p = H.games[g].ai THEN "ai"
  ELSE "foreign"

View(H, g) ==
  LET G == H.games[g] IN
  [human |-> PlayerView(H, G.human), ai |-> PlayerView(H, G.ai),
   current_player |-> SideOf(H, g, G.current_player),
   turn_number |-> G.turn_number, phase |-> G.phase,
   game_over |-> G.game_over, winner |-> SideOf(H, g, G.winner),
   battle_log |-> G.battle_log, last_battle_result |-> G.last_battle_result]

\* the objects of game g themselves: the game, its players, its cards
Objects(H, g) ==
  [game |-> H.games[g], human |-> Human(H, g), ai |-> Ai(H, g),
   cards |-> [c \in CardsOfGame(H, g) |-> H.cards[c]]]

\* C1: once S has been copied, no operation on the copy changes S (its view
\* and its objects stay as they are), and S and the copy share no card and no
\* player object.
CopyIndependence ==
  [][Len(heap'.games) = 2 =>
       /\ View(heap', 1) = View(heap, 1)
       /\ Objects(heap', 1) = Objects(heap, 1)
       /\ CardsOfGame(heap', 1) \cap CardsOfGame(heap', 2) = {}
       /\ {heap'.games[1].human, heap'.games[1].ai}
            \cap {heap'.games[2].human, heap'.games[2].ai} = {}]_vars

MutatingOps ==
  {"draw_card", "play_card", "undo_play_card", "fuse_cards", "resolve_battle",
   "next_turn", "touch_card"}

\* a mutating operation has changed the copy
CopyMutated ==
  /\ Len(heap.games) = 2
  /\ last.op \in MutatingOps
  /\ View(heap, 2).human # View(heap, 1).human

\* last_battle_result is the last record of the log of the same game
LastResultOK(H) ==
  \A g \in 1..Len(H.games) :
    H.games[g].last_battle_result =
      IF H.games[g].battle_log = <<>> THEN <<>>
      ELSE <<H.games[g].battle_log[Len(H.games[g].battle_log)]>>

\* C9: the battle log is append-only. resolve_battle with an empty slot
\* returns None and changes nothing; with both slots occupied it appends
\* exactly the record it returns; no other operation changes the log of a
\* game; last_battle_result is the last record of the log.
BattleLogAppendOnly ==
  [][/\ LastResultOK(heap) /\ LastResultOK(heap')
     /\ \A g \in 1..Len(heap.games) :
          IF last'.op = "resolve_battle" /\ last'.g = g
          THEN IF Human(heap, g).field = None \/ Ai(heap, g).field = None
               THEN last'.ret = <<>> /\ heap' = heap
               ELSE /\ Len(last'.ret) = 1
                    /\ heap'.games[g].battle_log =
                         Append(heap.games[g].battle_log, last'.ret[1])
          ELSE heap'.games[g].battle_log = heap.games[g].battle_log]_vars

\* a second battle has been appended after the first
SecondBattleLogged ==
  /\ last.op = "resolve_battle"
  /\ Len(last.ret) = 1
  /\ Len(heap.games[last.g].battle_log) = 2
  /\ heap.games[last.g].battle_log[2] = last.ret[1]

(***************************************************************************)
(* Battles: both players of a match have played a card, in                 *)
(* any stance and with either star; earlier battles may have brought a     *)
(* life total down to LowLife.  Every step is a resolve_battle call.       *)
(***************************************************************************)
LowLife == 300

\* the k-th card of the data set that is neither h nor a
Spare(h, a, k) ==
  LET Others(cards) == SelectSeq([i \in 1..Len(cards) |-> cards[i].name],
                                  LAMBDA n : n # h /\ n # a)
  IN  Others(EmptyHeap.CARD_DATABASE)[k]

BattleGame(h, a, hpos, hstar, apos, astar, hlife, alife) ==
  LET Lives(H2) ==
        [H2 EXCEPT !.players[H2.games[1].human].life_points = hlife,
                   !.players[H2.games[1].ai].life_points = alife]
      AiPlays(H1) ==
        Lives(play_card(H1, H1.games[1].ai, 0, apos, astar).heap)
      HumanPlays(H0) ==
        AiPlays(play_card(H0, H0.games[1].human, 0, hpos, hstar).heap)
  IN  HumanPlays(MatchWith(<<h, Spare(h, a, 1)>>, <<a, Spare(h, a, 2)>>))

InitBattle ==
  /\ \E h \in CardNames, hpos \in Positions, apos \in Positions,
        hstar \in StarNums, astar \in StarNums,
        hlife \in {8000, LowLife}, alife \in {8000, LowLife} :
       \E a \in CardNames \ {h} :
         heap = BattleGame(h, a, hpos, hstar, apos, astar, hlife, alife)
  /\ last = [op |-> "play_card", g |-> 1, ret |-> TRUE, raised |-> FALSE]
  /\ steps = 0
  /\ call = NoCall

NextBattle == \E attacker \in Sides : ResolveBattle(1, attacker)

SpecBattle == InitBattle /\ [][NextBattle]_vars

\* the step is a battle that took place, b is its record
Fought == last'.op = "resolve_battle" /\ Len(last'.ret) = 1

AttackerOf(b) == PlayerOf(heap, 1, b.attacker)

DefenderOf(b) == PlayerOf(heap, 1, IF b.attacker = "human" THEN "ai" ELSE "human")

\* player p keeps its card on the field and its graveyard
KeepsCard(p) ==
  /\ heap'.players[p].field = heap.players[p].field
  /\ heap'.players[p].graveyard = heap.players[p].graveyard

\* the field card of player p goes to the end of p's graveyard
LosesCard(p) ==
  /\ heap'.players[p].field = None
  /\ heap'.players[p].graveyard =
       Append(heap.players[p].graveyard, heap.players[p].field)

LifeChange(p) == heap'.players[p].life_points - heap.players[p].life_points

\* C4: defender in Attack stance, unequal values: the owner of the lower
\* value loses exactly the difference and its card goes to its graveyard; the
\* other card stays and its owner's life is unchanged.
AttackStanceLoserPays ==
  [][Fought =>
       LET b == last'.ret[1]
           att == AttackerOf(b)
           def == DefenderOf(b)
           loser == IF b.attacker_value < b.defender_value THEN att ELSE def
           winner == IF b.attacker_value < b.defender_value THEN def ELSE att
           diff == IF b.attacker_value < b.defender_value
                   THEN b.defender_value - b.attacker_value
                   ELSE b.attacker_value - b.defender_value
       IN  (heap.cards[heap.players[def].field].position = "ATK"
            /\ b.attacker_value # b.defender_value)
           => /\ LifeChange(loser) = -diff
              /\ LosesCard(loser)
              /\ LifeChange(winner) = 0
              /\ KeepsCard(winner)]_vars

\* an attacker has lost against a defender in Attack stance
AttackerLostToAttackStance ==
  /\ last.op = "resolve_battle" /\ Len(last.ret) = 1
  /\ last.ret[1].defender_position = "ATK"
  /\ last.ret[1].attacker_value < last.ret[1].defender_value
  /\ heap.players[PlayerOf(heap, 1, last.ret[1].attacker)].field = None

\* C5: attacker's value above the value of a defender in Defense stance: the
\* defender's card goes to its graveyard, no life total changes, the
\* attacker's card stays.
DefenseStanceDestroyed ==
  [][Fought =>
       LET b == last'.ret[1]
           att == AttackerOf(b)
           def == DefenderOf(b)
       IN  (heap.cards[heap.players[def].field].position = "DEF"
            /\ b.attacker_value > b.defender_value)
           => /\ LosesCard(def)
              /\ LifeChange(def) = 0 /\ LifeChange(att) = 0
              /\ KeepsCard(att)]_vars

\* a defender in Defense stance has been destroyed
DefenseCardDestroyed ==
  /\ last.op = "resolve_battle" /\ Len(last.ret) = 1
  /\ last.ret[1].defender_position = "DEF"
  /\ last.ret[1].attacker_value > last.ret[1].defender_value
  /\ last.ret[1].winner = last.ret[1].attacker

\* C6: attacker's value below the value of a defender in Defense stance: the
\* attacker's owner loses exactly the difference, the defender's owner loses
\* nothing, both cards stay and no graveyard grows.
ReboundAsymmetry ==
  [][Fought =>
       LET b == last'.ret[1]
           att == AttackerOf(b)
           def == DefenderOf(b)
       IN  (heap.cards[heap.players[def].field].position = "DEF"
            /\ b.attacker_value < b.defender_value)
           => /\ LifeChange(att) = -(b.defender_value - b.attacker_value)
              /\ LifeChange(def) = 0
              /\ KeepsCard(att) /\ KeepsCard(def)]_vars

\* 1800 attack against 2000 defense without bonus: 200 rebound damage
ReboundOf200 ==
  /\ last.op = "resolve_battle" /\ Len(last.ret) = 1
  /\ last.ret[1].defender_position = "DEF"
  /\ last.ret[1].attacker_value = 1800 /\ last.ret[1].defender_value = 2000
  /\ last.ret[1].attacker_bonus = 0 /\ last.ret[1].defender_bonus = 0
  /\ last.ret[1].damage = 200
  /\ Human(heap, 1).field # None /\ Ai(heap, 1).field # None

\* C7: equal values: with the defender in Attack stance both cards go to
\* their owners' graveyards and no life changes; with the defender in
\* Defense stance nothing changes on either player.
TieBranches ==
  [][Fought =>
       LET b == last'.ret[1]
           att == AttackerOf(b)
           def == DefenderOf(b)
       IN  b.attacker_value = b.defender_value
           => IF heap.cards[heap.players[def].field].position = "ATK"
              THEN /\ LosesCard(att) /\ LosesCard(def)
                   /\ LifeChange(att) = 0 /\ LifeChange(def) = 0
              ELSE /\ heap'.players = heap.players
                   /\ heap'.cards = heap.cards]_vars

\* a tie against a defender in Defense stance has left both cards in place
TieInDefense ==
  /\ last.op = "resolve_battle" /\ Len(last.ret) = 1
  /\ last.ret[1].defender_position = "DEF"
  /\ last.ret[1].attacker_value = last.ret[1].defender_value
  /\ last.ret[1].winner = "tie"
  /\ Human(heap, 1).field # None /\ Ai(heap, 1).field # None

\* C8: the attacker's value is its attack plus its star bonus whatever its
\* stance; the defender's value is its attack in Attack stance and its
\* defense in Defense stance, plus its star bonus.  1800 attack with a
\* dominating star against 1500 attack in Attack stance is 2300 against 1000
\* and costs the defender's owner 1300.
BattleValueRule ==
  [][Fought =>
       LET b == last'.ret[1]
           att == AttackerOf(b)
           def == DefenderOf(b)
           ac == heap.cards[heap.players[att].field]
           dc == heap.cards[heap.players[def].field]
           dominates == GUARDIAN_STARS[ac.selected_star].strong = dc.selected_star
       IN  /\ b.attacker_value =
                ac.atk + calculate_star_bonus(ac.selected_star, dc.selected_star)
           /\ b.defender_value =
                (IF dc.position = "ATK" THEN dc.atk ELSE dc.defense)
                + calculate_star_bonus(dc.selected_star, ac.selected_star)
           /\ (ac.atk = 1800 /\ dc.atk = 1500 /\ dc.position = "ATK" /\ dominates)
              => /\ b.attacker_value = 2300 /\ b.defender_value = 1000
                 /\ LifeChange(def) = -1300]_vars

\* an attacker in Defense stance has fought with its attack: 2300 against 1000
DefenseStanceAttacker ==
  /\ last.op = "resolve_battle" /\ Len(last.ret) = 1
  /\ last.ret[1].attacker_value = 2300 /\ last.ret[1].defender_value = 1000
  /\ last.ret[1].damage = 1300
  /\ (IF last.ret[1].attacker = "human" THEN last.ret[1].human_position
      ELSE last.ret[1].ai_position) = "DEF"

(***************************************************************************)
(* Star bonuses: a battle between a card fighting under star X and a card  *)
(* fighting under star Y computes the bonus of each side against the other *)
(* (resolve_battle, step 1), for every pair of stars of GUARDIAN_STARS.    *)
(***************************************************************************)
InitStars ==
  /\ heap = EmptyHeap
  /\ last = [op |-> "none", g |-> None, ret |-> None, raised |-> FALSE]
  /\ steps = 0
  /\ \E X \in Stars, Y \in Stars :
       call = [op |-> "calculate_star_bonus", args |-> <<X, Y>>, ret |-> <<>>]

\* attacker_star_bonus and defender_star_bonus of the pair
StarBonuses ==
  /\ call.ret = <<>>
  /\ call' = [call EXCEPT !.ret =
                <<calculate_star_bonus(call.args[1], call.args[2]),
                  calculate_star_bonus(call.args[2], call.args[1])>>]
  /\ UNCHANGED <<heap, last, steps>>

NextStars == StarBonuses

SpecStars == InitStars /\ [][NextStars]_vars

\* C10: for all stars X, Y of the table the bonus of X against Y is +500
\* exactly when X's strong star is Y, -500 exactly when Y's strong star is X,
\* and 0 otherwise; hence bonus(X, Y) = -bonus(Y, X), and the two bonuses
\* differ whenever one side dominates.
AffinityBonusSign ==
  call.ret # <<>> =>
    LET X == call.args[1]
        Y == call.args[2]
        bonus == call.ret[1]
        reverse == call.ret[2]
    IN  /\ (bonus = 500) <=> (GUARDIAN_STARS[X].strong = Y)
        /\ (bonus = -500) <=> (GUARDIAN_STARS[Y].strong = X)
        /\ (GUARDIAN_STARS[X].strong # Y /\ GUARDIAN_STARS[Y].strong # X)
             => bonus = 0
        /\ bonus = -reverse
        /\ (GUARDIAN_STARS[X].strong = Y \/ GUARDIAN_STARS[Y].strong = X)
             => bonus # reverse

\* the bonuses of a dominated star against the star that dominates it
DominatedStarPenalised ==
  /\ call.ret = <<-500, 500>>
  /\ GUARDIAN_STARS[call.args[2]].strong = call.args[1]

(***************************************************************************)
(* The search: on a match under way, on which at most one further          *)
(* engine operation has been carried out, minimax is called at the root    *)
(* (alpha = -inf, beta = +inf), or the opponent is asked for its move.     *)
(***************************************************************************)
MaxDepth == 2

SearchDeals ==
  { << <<"Sol Knight", "Moon Fiend", "Stone Wall">>,
       <<"Sun Soldier", "Twilight Dragon", "Tide Serpent">> >>,
    << <<"Twilight Dragon", "Sol Knight", "Moon Fiend">>,
       <<"Sun Soldier", "Stone Wall", "Tide Serpent">> >>,
    << <<"Tide Serpent", "Stone Wall", "Sun Soldier">>,
       <<"Moon Fiend", "Twilight Dragon", "Sol Knight">> >> }

InitSearch ==
  /\ \E d \in SearchDeals : heap = MatchWith(d[1], d[2])
  /\ last = [op |-> "match", g |-> 1, ret |-> None, raised |-> FALSE]
  /\ steps = 0
  /\ call = [op |-> "none", args |-> <<>>, ret |-> <<>>, states |-> 0]

\* an engine operation before the search
Before(operation) == call.op = "none" /\ steps = 0 /\ operation

\* the call returns: the heap it leaves, what it returns, and the number of
\* game states it has created
Returns(op, args, res, ret) ==
  /\ call.op = "none"
  /\ heap' = res.heap
  /\ call' = [op |-> op, args |-> args, ret |-> ret,
              states |-> Len(res.heap.games) - Len(heap.games)]
  /\ UNCHANGED <<last, steps>>

\* ai.minimax(state, depth, -math.inf, math.inf, is_maximizing)
Minimax(g, depth, is_maximizing) ==
  LET Return(res) ==
        Returns("minimax", <<g, depth, is_maximizing>>, res,
                <<res.value, res.action>>)
  IN  Return(minimax(heap, g, depth, MinusInf, PlusInf, is_maximizing))

\* MinimaxAI(max_depth).get_best_move(state)
GetBestMove(g, max_depth) ==
  LET Return(res) ==
        Returns("get_best_move", <<g, max_depth>>, res, <<res.action>>)
  IN  Return(get_best_move(heap, g, max_depth))

NextSearch ==
  \/ \E side \in Sides : Before(DrawCard(1, side))
  \/ \E side \in Sides, position \in Positions, star_num \in StarNums :
       \E i \in HandIdx(1, side) :
         Before(PlayCard(1, side, i, position, star_num))
  \/ \E side \in Sides :
       \E i, j \in HandIdx(1, side) : Before(FuseCards(1, side, i, j))
  \/ \E depth \in 0..MaxDepth, is_maximizing \in BOOLEAN :
       Minimax(1, depth, is_maximizing)
  \/ \E max_depth \in 1..MaxDepth : GetBestMove(1, max_depth)

SpecSearch == InitSearch /\ [][NextSearch]_vars

RECURSIVE exhaustive(_, _, _, _)

\* The unpruned minimax over the same tree: every action of
\* get_possible_actions is tried, in order, on a child of its own; the value
\* is the largest (MAX) or smallest (MIN) value of the children, the action
\* is the first one that reaches it, and states counts the children built.
exhaustive(H, state, depth, is_maximizing) ==
  LET Below(action, child) ==
        IF action.type = "fuse"
        THEN exhaustive(child.heap, child.ret, depth, is_maximizing)
        ELSE exhaustive(child.heap, child.ret, depth - 1, ~is_maximizing)
      Best(values) ==
        IF is_maximizing
        THEN CHOOSE v \in values : \A w \in values : ~Less(v, w)
        ELSE CHOOSE v \in values : \A w \in values : ~Less(w, v)
      First(below, best) ==
        CHOOSE i \in DOMAIN below :
          below[i].value = best /\ \A j \in 1..(i - 1) : below[j].value # best
      RECURSIVE Sum(_, _)
      Sum(below, i) ==
        IF i = 0 THEN 0 ELSE 1 + below[i].states + Sum(below, i - 1)
      Result(actions, below, best) ==
        [value |-> best, action |-> <<actions[First(below, best)]>>,
         states |-> Sum(below, Len(below))]
      Pick(actions, below) ==
        Result(actions, below, Best({below[i].value : i \in DOMAIN below}))
      Search(actions) ==
        IF actions = <<>>
        THEN [value |-> evaluate(H, state), action |-> <<>>, states |-> 0]
        ELSE Pick(actions,
                  [i \in DOMAIN actions |->
                     Below(actions[i],
                           Child(H, state, actions[i], is_maximizing))])
  IN  IF depth = 0 \/ H.games[state].game_over
      THEN [value |-> evaluate(H, state), action |-> <<>>, states |-> 0]
      ELSE Search(get_possible_actions(
                    H, state, PlayerOf(H, state, IF is_maximizing THEN "ai"
                                                 ELSE "human")))

\* C2: alpha-beta equivalence.  For every state and every depth, the value
\* and the action that minimax returns when called at the root with
\* alpha = -infinity and beta = +infinity are the value and the action of the
\* unpruned exhaustive minimax over the same tree, which keeps the first
\* action found on ties.
AlphaBetaEquivalence ==
  [][(call.op = "none" /\ call'.op = "minimax") =>
       LET Same(full) == call'.ret = <<full.value, full.action>>
       IN  Same(exhaustive(heap, call'.args[1], call'.args[2],
                           call'.args[3]))]_vars

\* a search at the root in which the cut has saved states
PrunedSearch ==
  /\ call.op = "minimax"
  /\ call.args[2] = MaxDepth
  /\ call.ret[2] # <<>>
  /\ call.states < exhaustive(heap, call.args[1], call.args[2],
                              call.args[3]).states

\* the objects that exist in H are the same in H2
Untouched(H, H2) ==
  /\ SubSeq(H2.games, 1, Len(H.games)) = H.games
  /\ SubSeq(H2.players, 1, Len(H.players)) = H.players
  /\ SubSeq(H2.cards, 1, Len(H.cards)) = H.cards

\* the cards and the players of the games of H, each with the game it
\* belongs to
Owned(H) ==
  UNION {{<<g, "card", c>> : c \in CardsOfGame(H, g)}
           \cup {<<g, "player", H.games[g].human>>,
                 <<g, "player", H.games[g].ai>>} : g \in 1..Len(H.games)}

\* no card and no player belongs to two games: there are as many owned
\* objects as there are ownerships
NothingShared(H) ==
  Cardinality({<<owned[2], owned[3]>> : owned \in Owned(H)})
    = Cardinality(Owned(H))

\* C3: the search never mutates the state it is given.  After
\* get_best_move(state) or minimax(state, ...) has returned, the state is
\* what it was before the call (piles, hands, fields, discard piles, life
\* totals, stances and stars of the cards, flags, battle log), and every
\* child was built from a fresh copy: no two states of the search share a
\* card or a player, so that no branch sees what another one did.
SearchLeavesStateAlone ==
  [][(call.op = "none" /\ call'.op \in {"minimax", "get_best_move"}) =>
       /\ View(heap', call'.args[1]) = View(heap, call'.args[1])
       /\ Objects(heap', call'.args[1]) = Objects(heap, call'.args[1])
       /\ Untouched(heap, heap')
       /\ NothingShared(heap')]_vars

\* get_best_move has searched, and in a child of the search a battle was
\* fought that the given state has not seen
SearchFoughtBattle ==
  /\ call.op = "get_best_move"
  /\ call.ret[1] # <<>>
  /\ heap.games[call.args[1]].battle_log = <<>>
  /\ \E g \in 1..Len(heap.games) : heap.games[g].battle_log # <<>>

(***************************************************************************)
(* The dominance table: from a star of GUARDIAN_STARS one of its two       *)
(* relations (strong, weak) is looked up again and again, each time on the *)
(* star reached last, for as many steps as the table has stars.            *)
(***************************************************************************)
InitCycle ==
  /\ heap = EmptyHeap
  /\ last = [op |-> "none", g |-> None, ret |-> None, raised |-> FALSE]
  /\ steps = 0
  /\ \E X \in Stars, relation \in {"strong", "weak"} :
       call = [op |-> relation, args |-> <<X>>, ret |-> <<>>]

\* the star reached last on the walk
Reached == IF call.ret = <<>> THEN call.args[1] ELSE call.ret[Len(call.ret)]

\* GUARDIAN_STARS[star][relation]
Follow ==
  /\ Len(call.ret) < Cardinality(Stars)
  /\ call' = [call EXCEPT !.ret = Append(@, GUARDIAN_STARS[Reached][call.op])]
  /\ UNCHANGED <<heap, last, steps>>

NextCycle == Follow

SpecCycle == InitCycle /\ [][NextCycle]_vars

\* every star dominates one star of the table and is dominated by exactly one
OneToOne(stars) ==
  /\ \A X \in DOMAIN stars : stars[X].strong \in DOMAIN stars
  /\ \A Y \in DOMAIN stars :
       Cardinality({X \in DOMAIN stars : stars[X].strong = Y}) = 1

\* the steps of the walk at which it is back at its start
BackAtStart == {k \in 1..Len(call.ret) : call.ret[k] = call.args[1]}

\* C11 as stated: the table is a single 10-cycle.  Every star has exactly one
\* star it dominates and exactly one that dominates it, and following the
\* strong-against relation from any star visits all 10 stars before it
\* returns to the start.
SingleTenCycle ==
  /\ OneToOne(GUARDIAN_STARS)
  /\ call.op = "strong" =>
       \A k \in BackAtStart :
         {call.ret[i] : i \in 1..k} = Stars /\ k = 10

SolarFamily == {"Sol", "Luna", "Venus", "Mercurio"}

\* the stars of the cycle star X lies on
FamilyOf(X) == IF X \in SolarFamily THEN SolarFamily ELSE Stars \ SolarFamily

\* C11, amended: the table is a permutation of the 10 stars made of two
\* separate cycles, one of 4 stars (Sol, Luna, Venus, Mercurio) and one of 6
\* (Marte, Jupiter, Saturno, Urano, Pluton, Neptuno).  Every star has exactly
\* one star it dominates and exactly one that dominates it (its weak entry);
\* following the strong-against relation from a star never leaves the star's
\* own cycle and is back at the start after exactly 4 or 6 steps, having
\* visited the stars of that cycle only.
TwoDominanceCycles ==
  /\ OneToOne(GUARDIAN_STARS)
  /\ Cardinality(Stars) = 10
  /\ \A X \in Stars : GUARDIAN_STARS[GUARDIAN_STARS[X].strong].weak = X
  /\ call.op = "strong" =>
       /\ \A i \in 1..Len(call.ret) : call.ret[i] \in FamilyOf(call.args[1])
       /\ \A k \in BackAtStart :
            /\ k % Cardinality(FamilyOf(call.args[1])) = 0
            /\ {call.ret[i] : i \in 1..k} = FamilyOf(call.args[1])
       /\ Len(call.ret) >= Cardinality(FamilyOf(call.args[1]))
            => Cardinality(FamilyOf(call.args[1])) \in BackAtStart

\* the walk from Sol is back at Sol after 4 steps, 6 stars not visited
BackAfterFourSteps ==
  /\ call.op = "strong" /\ call.args[1] = "Sol"
  /\ Len(call.ret) = 4 /\ call.ret[4] = "Sol"
  /\ Cardinality({call.ret[i] : i \in 1..4}) = 4

(***************************************************************************)
(* Stars of a card: a player holds one new card, of any attribute and any  *)
(* type (values the two tables do not know included).  The card is played, *)
(* taken back, copied, and a star is selected on it or on one of its       *)
(* copies, in any order.                                                   *)
(***************************************************************************)
MaxCopies == 1

Attributes == DOMAIN ATTRIBUTE_TO_STARS \cup {"Unknown"}

CardTypes == DOMAIN TYPE_TO_STARS \cup {"Unknown"}

\* star numbers a caller may pass: 1 selects star1, anything else star2
StarChoices == 0..3

InitTokens ==
  /\ \E attribute \in Attributes, card_type \in CardTypes :
       heap = [EmptyHeap EXCEPT
                 !.cards = <<Card(1, "Card", card_type, 1000, 1000, attribute, 4)>>,
                 !.players = <<[Player("Jugador", FALSE) EXCEPT !.hand = <<1>>]>>]
  /\ last = [op |-> "Card", g |-> None, ret |-> 1, raised |-> FALSE]
  /\ steps = 0
  /\ call = NoCall

\* a call on the player or on a card
TokenStep(op, res) ==
  /\ heap' = res.heap
  /\ last' = [op |-> op, g |-> None, ret |-> res.ret, raised |-> res.raised]
  /\ UNCHANGED <<steps, call>>

TokenPlay(hand_index, position, star_num) ==
  TokenStep("play_card", play_card(heap, 1, hand_index, position, star_num))

TokenUndo == TokenStep("undo_play_card", undo_play_card(heap, 1))

TokenCopy(c) ==
  /\ Len(heap.cards) < 1 + MaxCopies
  /\ TokenStep("copy", Card_copy(heap, c))

TokenSelect(c, star_num) ==
  TokenStep("select_star", R(select_star(heap, c, star_num), None))

NextTokens ==
  \/ \E position \in Positions, star_num \in StarChoices :
       TokenPlay(0, position, star_num)
  \/ TokenUndo
  \/ \E c \in 1..Len(heap.cards) : TokenCopy(c)
  \/ \E c \in 1..Len(heap.cards), star_num \in StarChoices :
       TokenSelect(c, star_num)

SpecTokens == InitTokens /\ [][NextTokens]_vars

\* C12: for every combination of attribute and type, values absent from the
\* tables included, the two stars assigned to a card are distinct, and after
\* any sequence of play, copy and star-selection operations the selected
\* star of a card is one of its own two stars; a new card has its first star
\* selected.
OwnDistinctStars ==
  /\ \A c \in 1..Len(heap.cards) :
       /\ heap.cards[c].star1 # heap.cards[c].star2
       /\ heap.cards[c].selected_star
            \in {heap.cards[c].star1, heap.cards[c].star2}
  /\ last.op = "Card" => heap.cards[last.ret].selected_star
                           = heap.cards[last.ret].star1

\* a card whose attribute and type give the same star, and which got the
\* attribute's alternate star instead, has been played under its second star
\* and copied
SubstitutedStarPlayed ==
  /\ Len(heap.cards) = 2
  /\ heap.players[1].field = 1
  /\ heap.cards[1].attribute \in DOMAIN ATTRIBUTE_TO_STARS
  /\ heap.cards[1].card_type \in DOMAIN TYPE_TO_STARS
  /\ ATTRIBUTE_TO_STARS[heap.cards[1].attribute][1]
       = TYPE_TO_STARS[heap.cards[1].card_type][2]
  /\ heap.cards[1].selected_star = heap.cards[1].star2
  /\ heap.cards[2].selected_star = heap.cards[2].star2

(***************************************************************************)
(* Drawing: a player with any pile of at most MaxPile cards and any hand   *)
(* of at most 5 cards calls draw_card again and again.                     *)
(***************************************************************************)
MaxPile == 6

MaxDraws == 7

\* the names of n cards, the data set repeated as often as needed
SomeNames(n) ==
  [k \in 1..n |-> Monsters[((k - 1) % Len(Monsters)) + 1][2]]

\* a player who has been dealt the cards named: the first pile of them are
\* the pile, the others the hand
PlayerHolding(names, pile) ==
  LET Hold(cards) ==
        [cards.heap EXCEPT
           !.players = <<[Player("Jugador", FALSE) EXCEPT
                            !.deck = SubSeq(cards.ret, 1, pile),
                            !.hand = SubSeq(cards.ret, pile + 1,
                                            Len(cards.ret))]>>]
  IN  Hold(Pile(EmptyHeap, names))

\* a player with pile cards in the pile and in_hand cards in the hand
PlayerWith(pile, in_hand) == PlayerHolding(SomeNames(pile + in_hand), pile)

InitDraw ==
  /\ \E pile \in 0..MaxPile, in_hand \in 0..HandLimit :
       heap = PlayerWith(pile, in_hand)
  /\ last = [op |-> "none", g |-> None, ret |-> None, raised |-> FALSE]
  /\ steps = 0
  /\ call = NoCall

DrawAgain ==
  LET Drawn(res) ==
        /\ heap' = res.heap
        /\ last' = [op |-> "draw_card", g |-> None, ret |-> res.ret,
                    raised |-> res.raised]
  IN  /\ steps < MaxDraws
      /\ Drawn(draw_card(heap, 1))
      /\ steps' = steps + 1
      /\ UNCHANGED call

NextDraw == DrawAgain

SpecDraw == InitDraw /\ [][NextDraw]_vars

\* C13: starting from a hand of at most 5 cards, the hand has at most 5
\* cards after any number of draw_card calls.  A draw moves the front card of
\* the pile to the end of the hand, and returns it, only when the pile is not
\* empty and the hand has fewer than 5 cards; otherwise it returns no card
\* and changes nothing.
HandBoundUnderDraw ==
  [][/\ Len(heap.players[1].hand) <= 5
     /\ Len(heap'.players[1].hand) <= 5
     /\ IF heap.players[1].deck # <<>> /\ Len(heap.players[1].hand) < 5
        THEN /\ last'.ret = Head(heap.players[1].deck)
             /\ heap'.players[1] =
                  [heap.players[1] EXCEPT
                     !.deck = Tail(@),
                     !.hand = Append(@, Head(heap.players[1].deck))]
             /\ heap'.cards = heap.cards
        ELSE last'.ret = None /\ heap' = heap]_vars

\* a draw with cards left in the pile has been refused: the hand is full
FullHandDrawRefused ==
  /\ last.op = "draw_card" /\ last.ret = None
  /\ Len(heap.players[1].hand) = 5
  /\ heap.players[1].deck # <<>>

(***************************************************************************)
(* Full hands: the players hold FullDeals and each has the five cards of   *)
(* the initial draws in hand; the engine operations are then called in any *)
(* order, MaxHandSteps calls in all.                                       *)
(***************************************************************************)
MaxHandSteps == 3

FullDeals ==
  { << <<"Sol Knight", "Moon Fiend", "Stone Wall", "Tide Serpent",
         "Sun Soldier", "Twilight Dragon", "Sol Knight">>,
       <<"Twilight Dragon", "Sun Soldier", "Tide Serpent", "Stone Wall",
         "Moon Fiend", "Sol Knight", "Moon Fiend">> >> }

\* the draws carried on until the hands hold the five cards of a set-up
FullHands(H) == DrawInitial(H, 1, HandLimit - EarlyDraws)

InitHand ==
  /\ \E d \in FullDeals : heap = FullHands(MatchWith(d[1], d[2]))
  /\ last = [op |-> "match", g |-> 1, ret |-> None, raised |-> FALSE]
  /\ steps = 0
  /\ call = NoCall

HandStep(operation) == steps < MaxHandSteps /\ operation

NextHand ==
  \/ \E side \in Sides : HandStep(DrawCard(1, side))
  \/ \E side \in Sides, position \in Positions, star_num \in StarNums :
       \E i \in HandIdx(1, side) :
         HandStep(PlayCard(1, side, i, position, star_num))
  \/ \E side \in Sides : HandStep(UndoPlayCard(1, side))
  \/ \E side \in Sides :
       \E i, j \in HandIdx(1, side) : HandStep(FuseCards(1, side, i, j))
  \/ \E attacker \in Sides : HandStep(ResolveBattle(1, attacker))
  \/ HandStep(NextTurn(1))

SpecHand == InitHand /\ [][NextHand]_vars

\* C14: in every state reachable from a set-up game by any interleaving of
\* draw, play, undo, combine, battle resolution and next_turn, the hand of
\* each player has at most 5 cards and each field holds no card or one card.
HandAndFieldBound ==
  \A side \in Sides :
    /\ Len(heap.players[PlayerOf(heap, 1, side)].hand) <= 5
    /\ heap.players[PlayerOf(heap, 1, side)].field \in 0..Len(heap.cards)

(***************************************************************************)
(* The operations of a player: a player holds four cards and has two left  *)
(* in the pile.  At most MaxBefore operations are carried out, with any    *)
(* arguments; then one more call is made, the call under observation,      *)
(* whose arguments and result are recorded in call.                        *)
(***************************************************************************)
MaxBefore == 3

PlayerDeals ==
  { <<"Moon Fiend", "Twilight Dragon",
      "Sun Soldier", "Sol Knight", "Stone Wall", "Tide Serpent">> }

InitPlayer ==
  /\ \E names \in PlayerDeals : heap = PlayerHolding(names, 2)
  /\ last = [op |-> "none", g |-> None, ret |-> None, raised |-> FALSE]
  /\ steps = 0
  /\ call = [op |-> "none"]

\* the indices a caller may pass: every position of the hand, counted from
\* the front or (negative) from the end, and one beyond at either end
Indices == -(Len(heap.players[1].hand) + 1)..Len(heap.players[1].hand)

\* a call on the player, observed or not
Called(op, args, res, observed) ==
  /\ call.op = "none"
  /\ heap' = res.heap
  /\ IF observed
     THEN /\ call' = [op |-> op, args |-> args, ret |-> res.ret,
                      raised |-> res.raised]
          /\ UNCHANGED steps
     ELSE /\ steps < MaxBefore
          /\ steps' = steps + 1
          /\ UNCHANGED call
  /\ UNCHANGED last

CallDrawCard(observed) ==
  Called("draw_card", <<>>, draw_card(heap, 1), observed)

CallPlayCard(hand_index, position, star_num, observed) ==
  Called("play_card", <<hand_index, position, star_num>>,
         play_card(heap, 1, hand_index, position, star_num), observed)

CallUndoPlayCard(observed) ==
  Called("undo_play_card", <<>>, undo_play_card(heap, 1), observed)

CallCanFuse(idx1, idx2, observed) ==
  Called("can_fuse", <<idx1, idx2>>, can_fuse(heap, 1, idx1, idx2), observed)

CallFuseCards(idx1, idx2, observed) ==
  Called("fuse_cards", <<idx1, idx2>>, fuse_cards(heap, 1, idx1, idx2),
         observed)

NextPlayer ==
  \/ \E observed \in BOOLEAN : CallDrawCard(observed)
  \/ \E i \in Indices, position \in Positions, star_num \in StarNums,
        observed \in BOOLEAN : CallPlayCard(i, position, star_num, observed)
  \/ \E observed \in BOOLEAN : CallUndoPlayCard(observed)
  \/ \E i, j \in Indices, observed \in BOOLEAN : CallCanFuse(i, j, observed)
  \/ \E i, j \in Indices, observed \in BOOLEAN : CallFuseCards(i, j, observed)

SpecPlayer == InitPlayer /\ [][NextPlayer]_vars

\* the step is the observed call of op
Observed(op) == call.op = "none" /\ call'.op = op

\* seq without its element at 0-based position i
Without(seq, i) ==
  [k \in 1..(Len(seq) - 1) |-> IF k <= i THEN seq[k] ELSE seq[k + 1]]

\* the cards of set kept are what they were
SameCards(kept) == \A c \in kept : heap'.cards[c] = heap.cards[c]

\* C15: play_card(hand_index, position, star_num).  With hand_index outside
\* the hand it returns False and leaves the player (hand, field, discard
\* pile, sacrifice record) unchanged.  Otherwise a card already on the field
\* is appended to the discard pile and recorded as last sacrificed (the
\* record is cleared when the field was empty), the selected card is removed
\* from the hand with the other hand cards keeping their order, its stance
\* and selected star are set as requested, and it becomes the field card.
PlayCardContract ==
  [][Observed("play_card") =>
       LET P == heap.players[1]
           Q == heap'.players[1]
           hand_index == call'.args[1]
       IN  IF hand_index \notin 0..(Len(P.hand) - 1)
           THEN call'.ret = FALSE /\ Q = P /\ heap' = heap
           ELSE /\ call'.ret = TRUE /\ ~call'.raised
                /\ IF P.field # None
                   THEN /\ Q.graveyard = Append(P.graveyard, P.field)
                        /\ Q.last_sacrificed_card = P.field
                   ELSE /\ Q.graveyard = P.graveyard
                        /\ Q.last_sacrificed_card = None
                /\ Q.hand = Without(P.hand, hand_index)
                /\ Q.field = P.hand[hand_index + 1]
                /\ heap'.cards[Q.field] =
                     [heap.cards[Q.field] EXCEPT
                        !.position = call'.args[2],
                        !.selected_star =
                           IF call'.args[3] = 1 THEN heap.cards[Q.field].star1
                           ELSE heap.cards[Q.field].star2]
                /\ SameCards(1..Len(heap.cards) \ {Q.field})
                /\ Len(heap'.cards) = Len(heap.cards)
                /\ Q.deck = P.deck /\ Q.life_points = P.life_points]_vars

\* a card from the middle of the hand has been played in Defense stance
\* under its second star, onto a field that held a card
MiddleCardPlayedOverAnother ==
  /\ call.op = "play_card" /\ call.ret = TRUE
  /\ call.args[1] > 0 /\ call.args[1] < Len(heap.players[1].hand)
  /\ call.args[2] = "DEF" /\ call.args[3] = 2
  /\ heap.players[1].last_sacrificed_card # None
  /\ heap.players[1].graveyard # <<>>
  /\ heap.cards[heap.players[1].field].position = "DEF"

\* the sacrificed card is recorded and still on top of the discard pile
SacrificeOnTop(P) ==
  /\ P.last_sacrificed_card # None
  /\ P.graveyard # <<>>
  /\ P.graveyard[Len(P.graveyard)] = P.last_sacrificed_card

\* C16: undo_play_card.  With an empty field it returns False and changes
\* nothing.  Otherwise the field card is appended to the end of the hand and
\* the field is cleared; the recorded last-sacrificed card returns to the
\* field, popped from the discard pile, exactly when a sacrifice was recorded
\* and that card is still the top of the discard pile.  In every successful
\* undo the sacrifice record is cleared, so that a sacrificed card is
\* restored at most once: no record is left for the next undo.
UndoContract ==
  [][Observed("undo_play_card") =>
       LET P == heap.players[1]
           Q == heap'.players[1]
       IN  IF P.field = None
           THEN call'.ret = FALSE /\ heap' = heap
           ELSE /\ call'.ret = TRUE /\ ~call'.raised
                /\ Q.hand = Append(P.hand, P.field)
                /\ IF SacrificeOnTop(P)
                   THEN /\ Q.field = P.last_sacrificed_card
                        /\ Q.graveyard =
                             SubSeq(P.graveyard, 1, Len(P.graveyard) - 1)
                   ELSE /\ Q.field = None
                        /\ Q.graveyard = P.graveyard
                /\ Q.last_sacrificed_card = None
                /\ ~SacrificeOnTop(Q)
                /\ heap'.cards = heap.cards
                /\ Q.deck = P.deck /\ Q.life_points = P.life_points]_vars

\* an undo after two plays and a fusion: the sacrificed card lies under the
\* two fused cards and has stayed in the discard pile
SacrificeLeftInDiscard ==
  /\ call.op = "undo_play_card" /\ call.ret = TRUE
  /\ heap.players[1].field = None
  /\ Len(heap.players[1].graveyard) = 3
  /\ heap.players[1].last_sacrificed_card = None

\* the hand, the discard pile and the field of the player are as before
PlayerUntouched ==
  /\ heap'.players[1].hand = heap.players[1].hand
  /\ heap'.players[1].graveyard = heap.players[1].graveyard
  /\ heap'.players[1].field = heap.players[1].field

\* the observed call has returned None: can_fuse no card, fuse_cards no
\* reference
ReturnedNone ==
  /\ ~call'.raised
  /\ call'.op = "can_fuse" => call'.ret = <<>>
  /\ call'.op = "fuse_cards" => call'.ret = None

\* C17: combine index-safety.  fuse_cards(i, j) and can_fuse(i, j) with
\* i = j or with either index >= the length of the hand always return None
\* and leave the hand, the discard pile and the field unmodified, whatever
\* the other index is.
CombineIndexSafety ==
  [][(Observed("can_fuse") \/ Observed("fuse_cards")) =>
       LET n == Len(heap.players[1].hand)
           i == call'.args[1]
           j == call'.args[2]
       IN  (i = j \/ i >= n \/ j >= n)
           => ReturnedNone /\ PlayerUntouched /\ heap' = heap]_vars

\* fuse_cards has been refused for an index one beyond the hand, the other
\* index lying below the hand's first position from the end
IndexBeyondHandRefused ==
  /\ call.op = "fuse_cards" /\ call.ret = None /\ ~call.raised
  /\ Len(heap.players[1].hand) >= 2
  /\ call.args[2] = Len(heap.players[1].hand)
  /\ call.args[1] < -Len(heap.players[1].hand)

\* C18: index operations never throw and never corrupt state.  For every
\* integer index outside 0..len(hand)-1, negative indices included, play_card
\* returns False and can_fuse and fuse_cards return None, without raising an
\* exception and without changing the hand, the discard pile or the field.
IndexOpsNeverThrow ==
  [][(Observed("play_card") \/ Observed("can_fuse") \/ Observed("fuse_cards"))
       =>
       LET inside == 0..(Len(heap.players[1].hand) - 1)
           outside == IF call'.op = "play_card"
                      THEN call'.args[1] \notin inside
                      ELSE call'.args[1] \notin inside
                             \/ call'.args[2] \notin inside
       IN  outside =>
             /\ ~call'.raised
             /\ call'.op = "play_card" => call'.ret = FALSE
             /\ call'.op = "can_fuse" => call'.ret = <<>>
             /\ call'.op = "fuse_cards" => call'.ret = None
             /\ PlayerUntouched]_vars

\* the recipes of FUSIONS that combine the cards named a and b, in either
\* order
Recipes(a, b) ==
  {k \in 1..Len(FUSIONS) :
     {Lower(FUSIONS[k].material1), Lower(FUSIONS[k].material2)}
       = {Lower(a), Lower(b)}
     /\ (Lower(a) = Lower(b)
           => Lower(FUSIONS[k].material1) = Lower(FUSIONS[k].material2))}

\* C19: fuse_cards(i, j) on a combinable pair of hand cards removes exactly
\* the two cards at hand indices i and j (the other hand cards keep their
\* relative order), appends both to the discard pile, appends the result card
\* at the end of the hand and returns it, so that the hand shrinks by one and
\* the discard pile grows by two.  On a pair that is not combinable it
\* returns None and leaves the player unchanged.  The field is never touched.
FuseContract ==
  [][Observed("fuse_cards") =>
       LET P == heap.players[1]
           Q == heap'.players[1]
           i == call'.args[1]
           j == call'.args[2]
           hi == IF i > j THEN i ELSE j
           lo == IF i > j THEN j ELSE i
           new == Len(heap.cards) + 1
       IN  (i \in 0..(Len(P.hand) - 1) /\ j \in 0..(Len(P.hand) - 1))
           => /\ ~call'.raised
              /\ Q.field = P.field
              /\ IF i # j /\ Recipes(heap.cards[P.hand[i + 1]].name,
                                     heap.cards[P.hand[j + 1]].name) # {}
                 THEN /\ call'.ret = new
                      /\ Len(heap'.cards) = new
                      /\ SameCards(1..Len(heap.cards))
                      /\ \E k \in Recipes(heap.cards[P.hand[i + 1]].name,
                                          heap.cards[P.hand[j + 1]].name) :
                           /\ heap'.cards[new].name = FUSIONS[k].result_name
                           /\ heap'.cards[new].atk = FUSIONS[k].result_atk
                           /\ heap'.cards[new].defense = FUSIONS[k].result_def
                      /\ Q.hand = Append(Without(Without(P.hand, hi), lo), new)
                      /\ Len(Q.hand) = Len(P.hand) - 1
                      /\ Len(Q.graveyard) = Len(P.graveyard) + 2
                      /\ Q.graveyard =
                           P.graveyard \o <<P.hand[hi + 1], P.hand[lo + 1]>>
                      /\ Q.deck = P.deck
                      /\ Q.last_sacrificed_card = P.last_sacrificed_card
                 ELSE call'.ret = None /\ heap' = heap]_vars

\* two cards have been fused out of a hand of four, with a card on the field
\* and other cards before them in the hand
FusedBehindOthers ==
  /\ call.op = "fuse_cards" /\ call.ret # None /\ ~call.raised
  /\ call.args[1] > 0 /\ call.args[2] > 0
  /\ Len(heap.players[1].hand) = 3
  /\ heap.players[1].hand[3] = call.ret
  /\ heap.players[1].field # None

\* C20: the recipe lookup does not depend on the order of the two cards:
\* can_fuse(i, j) returns what can_fuse(j, i) returns, and fuse_cards(i, j)
\* leaves the player in the state fuse_cards(j, i) leaves them in, with the
\* same result card.
FusionOrderIndependent ==
  [][Observed("can_fuse") \/ Observed("fuse_cards") =>
       LET swapped == IF call'.op = "can_fuse"
                      THEN can_fuse(heap, 1, call'.args[2], call'.args[1])
                      ELSE fuse_cards(heap, 1, call'.args[2], call'.args[1])
       IN  /\ swapped.raised = call'.raised
           /\ swapped.ret = call'.ret
           /\ swapped.heap = heap']_vars

\* a fusion has been carried out with the recipe's second material given
\* first: the card at the smaller index, discarded last, is material2
SecondMaterialGivenFirst ==
  /\ call.op = "fuse_cards" /\ call.ret # None /\ ~call.raised
  /\ 0 <= call.args[1] /\ call.args[1] < call.args[2]
  /\ LET graveyard == heap.players[1].graveyard
     IN  /\ Len(graveyard) >= 2
         /\ \E k \in 1..Len(FUSIONS) :
              /\ heap.cards[call.ret].name = FUSIONS[k].result_name
              /\ Lower(heap.cards[graveyard[Len(graveyard)]].name)
                   = Lower(FUSIONS[k].material2)
              /\ Lower(heap.cards[graveyard[Len(graveyard) - 1]].name)
                   = Lower(FUSIONS[k].material1)
              /\ Lower(FUSIONS[k].material1) # Lower(FUSIONS[k].material2)

(***************************************************************************)
(* Legal actions: a match with full hands, or late in a match              *)
(* with one card left to each player; up to MaxActionSteps engine          *)
(* operations are called in any order, and then get_possible_actions is    *)
(* called for one of the players, its result being recorded in call.       *)
(***************************************************************************)
MaxActionSteps == 3

ActionDeals == FullDeals \cup { << <<"Sol Knight">>, <<"Moon Fiend">> >> }

InitActions ==
  /\ \E d \in ActionDeals : heap = FullHands(MatchWith(d[1], d[2]))
  /\ last = [op |-> "match", g |-> 1, ret |-> None, raised |-> FALSE]
  /\ steps = 0
  /\ call = NoCall

ActionStep(operation) ==
  steps < MaxActionSteps /\ call = NoCall /\ operation

GetPossibleActions(side) ==
  /\ call = NoCall
  /\ call' = [op |-> "get_possible_actions", args |-> <<side>>,
              ret |-> get_possible_actions(heap, 1, PlayerOf(heap, 1, side))]
  /\ UNCHANGED <<heap, last, steps>>

NextActions ==
  \/ \E side \in Sides : ActionStep(DrawCard(1, side))
  \/ \E side \in Sides, position \in Positions, star_num \in StarNums :
       \E i \in HandIdx(1, side) :
         ActionStep(PlayCard(1, side, i, position, star_num))
  \/ \E side \in Sides : ActionStep(UndoPlayCard(1, side))
  \/ \E side \in Sides :
       \E i, j \in HandIdx(1, side) : ActionStep(FuseCards(1, side, i, j))
  \/ \E attacker \in Sides : ActionStep(ResolveBattle(1, attacker))
  \/ ActionStep(NextTurn(1))
  \/ \E side \in Sides : GetPossibleActions(side)

SpecActions == InitActions /\ [][NextActions]_vars

\* get_possible_actions has been called: the player it was called for and
\* the list it returned
ActionsListed == call # NoCall

Asked == heap.players[PlayerOf(heap, 1, call.args[1])]

\* the pairs of hand indices i < j of player P whose cards match a recipe
CombinablePairs(P) ==
  {pair \in (0..(Len(P.hand) - 1)) \X (0..(Len(P.hand) - 1)) :
     /\ pair[1] < pair[2]
     /\ Recipes(heap.cards[P.hand[pair[1] + 1]].name,
                heap.cards[P.hand[pair[2] + 1]].name) # {}}

\* C21: for a hand of n cards get_possible_actions lists exactly 4n play
\* actions, ordered by hand index and within an index as (ATK, star 1),
\* (ATK, star 2), (DEF, star 1), (DEF, star 2); then exactly one fuse action
\* for each pair of hand indices i < j whose cards match a recipe and none
\* for any other pair; then only pass actions.
ActionListShape ==
  ActionsListed =>
    LET n == Len(Asked.hand)
        pairs == CombinablePairs(Asked)
        m == Cardinality(pairs)
        actions == call.ret
    IN  /\ Len(actions) >= 4 * n + m
        /\ \A i \in 0..(n - 1) :
             \A v \in 1..4 :
               actions[4 * i + v] =
                 [type |-> "play", index |-> i,
                  position |-> IF v <= 2 THEN "ATK" ELSE "DEF",
                  star |-> IF v \in {1, 3} THEN 1 ELSE 2,
                  card_name |-> heap.cards[Asked.hand[i + 1]].name]
        /\ \A k \in (4 * n + 1)..(4 * n + m) :
             /\ actions[k].type = "fuse"
             /\ <<actions[k].idx1, actions[k].idx2>> \in pairs
        /\ \A pair \in pairs :
             Cardinality({k \in (4 * n + 1)..(4 * n + m) :
                            <<actions[k].idx1, actions[k].idx2>> = pair}) = 1
        /\ \A k \in (4 * n + m + 1)..Len(actions) : actions[k].type = "pass"

\* the actions of a player with four cards in hand, two combinable pairs
\* among them, and a card on the field
FourCardsTwoPairs ==
  /\ ActionsListed
  /\ Len(Asked.hand) = 4
  /\ Cardinality(CombinablePairs(Asked)) = 2
  /\ Asked.field # None
  /\ Len(call.ret) = 19

\* the positions of the actions of a type in a list of actions
OfType(actions, type) == {k \in 1..Len(actions) : actions[k].type = type}

\* C22: get_possible_actions never returns an empty list, and the list
\* holds a pass action if and only if it holds no play and no fuse action
\* (the hand is empty) or the player's field is occupied.
NeverEmptyPassIff ==
  ActionsListed =>
    /\ call.ret # <<>>
    /\ (OfType(call.ret, "pass") # {})
         <=> \/ OfType(call.ret, "play") \cup OfType(call.ret, "fuse") = {}
             \/ Asked.field # None
    /\ (OfType(call.ret, "play") \cup OfType(call.ret, "fuse") = {})
         <=> (Asked.hand = <<>>)

\* a player with no card in hand and none on the field can only pass
OnlyPassLeft ==
  /\ ActionsListed
  /\ Asked.hand = <<>>
  /\ Asked.field = None
  /\ call.ret = <<[type |-> "pass"]>>

\* C23: the list returned by get_possible_actions has at most
\* 4 x (cards in hand) + (combinable pairs) + 1 actions: no more than one
\* pass action, and no action twice.
BranchingBound ==
  ActionsListed =>
    /\ Len(call.ret)
         <= 4 * Len(Asked.hand) + Cardinality(CombinablePairs(Asked)) + 1
    /\ Cardinality(OfType(call.ret, "pass")) <= 1
    /\ \A k1, k2 \in 1..Len(call.ret) : call.ret[k1] = call.ret[k2] => k1 = k2

(***************************************************************************)
(* The end of a match: each player has one or two cards left and the life  *)
(* totals may have been brought down to LowLife by earlier battles.  The   *)
(* engine operations are called in any order, MaxOverSteps calls in all,   *)
(* whether or not the game is over; the state may be copied once, the      *)
(* calls then going to the copy.                                           *)
(***************************************************************************)
MaxOverSteps == 4

OverDeals ==
  { << <<"Sol Knight">>, <<"Moon Fiend">> >>,
    << <<"Stone Wall", "Tide Serpent">>, <<"Sol Knight", "Moon Fiend">> >> }

\* game 1 of H with the life totals that earlier battles have left
WithLives(H, hlife, alife) ==
  [H EXCEPT !.players[H.games[1].human].life_points = hlife,
            !.players[H.games[1].ai].life_points = alife]

InitOver ==
  /\ \E d \in OverDeals, hlife \in {8000, LowLife}, alife \in {8000, LowLife} :
       heap = WithLives(MatchWith(d[1], d[2]), hlife, alife)
  /\ last = [op |-> "match", g |-> 1, ret |-> None, raised |-> FALSE]
  /\ steps = 0
  /\ call = NoCall

OverStep(operation) == steps < MaxOverSteps /\ operation

\* apply_action with one of the actions get_possible_actions offers
ApplyAction(g, side, action) ==
  Step("apply_action", g, apply_action(heap, g, PlayerOf(heap, g, side), action))

ActionsOf(g, side) ==
  LET actions == get_possible_actions(heap, g, PlayerOf(heap, g, side))
  IN  {actions[k] : k \in 1..Len(actions)}

CheckGameOver(g) ==
  Step("check_game_over", g, R(check_game_over(heap, g), None))

NextOver ==
  \/ \E g \in Games, side \in Sides : OverStep(DrawCard(g, side))
  \/ \E g \in Games, side \in Sides, position \in Positions,
        star_num \in StarNums :
       \E i \in HandIdx(g, side) :
         OverStep(PlayCard(g, side, i, position, star_num))
  \/ \E g \in Games, side \in Sides : OverStep(UndoPlayCard(g, side))
  \/ \E g \in Games, side \in Sides :
       \E i, j \in HandIdx(g, side) : OverStep(FuseCards(g, side, i, j))
  \/ \E g \in Games, side \in Sides :
       \E action \in ActionsOf(g, side) : OverStep(ApplyAction(g, side, action))
  \/ \E g \in Games, attacker \in Sides : OverStep(ResolveBattle(g, attacker))
  \/ \E g \in Games : OverStep(NextTurn(g))
  \/ \E g \in Games : OverStep(CheckGameOver(g))
  \/ OverStep(CopyState)

SpecOver == InitOver /\ [][NextOver]_vars

\* C24: acting after game over is a silent no-op: in a state whose
\* game_over flag is set, apply_action, next_turn and resolve_battle do not
\* raise and leave hands, fields, piles, life totals, current player, turn
\* counter, winner and battle log unchanged.
NoOpAfterGameOver ==
  [][(/\ last'.op \in {"apply_action", "next_turn", "resolve_battle"}
      /\ heap.games[last'.g].game_over)
       => /\ ~last'.raised
          /\ View(heap', last'.g) = View(heap, last'.g)]_vars

\* C25: in every reachable state and in every copy of one, game_over set
\* implies that winner is one of the two players of that same state; it is
\* never set with winner None.
WinnerSetWhenOver ==
  \A g \in 1..Len(heap.games) :
    heap.games[g].game_over
      => heap.games[g].winner \in {heap.games[g].human, heap.games[g].ai}

\* a finished game has been copied: the copy is over and its winner is a
\* player of the copy
FinishedGameCopied ==
  /\ Len(heap.games) = 2
  /\ last.op = "copy"
  /\ heap.games[2].game_over
  /\ heap.games[2].winner # None
  /\ heap.games[2].winner # heap.games[1].winner

(***************************************************************************)
(* The verdict: check_game_over is called on a game in which each life     *)
(* total is positive, zero or negative, each player holds a last card in   *)
(* the draw pile, in hand or on the field or holds none, and an earlier    *)
(* verdict may stand.                                                      *)
(***************************************************************************)
VerdictLives == {-200, 0, LowLife, 8000}

Holdings == {"deck", "hand", "field", "none"}

\* player p of H, who has one card in hand, with that card moved elsewhere
Holding(H, p, where) ==
  CASE where = "hand" -> H
    [] where = "deck" ->
         [H EXCEPT !.players[p].deck = H.players[p].hand,
                   !.players[p].hand = <<>>]
    [] where = "field" -> play_card(H, p, 0, "ATK", 1).heap
    [] where = "none" ->
         [H EXCEPT !.players[p].graveyard = H.players[p].hand,
                   !.players[p].hand = <<>>]

VerdictGame(hlife, alife, hcards, acards, verdict) ==
  LET Earlier(H) ==
        IF verdict = "none" THEN H
        ELSE [H EXCEPT !.games[1].game_over = TRUE,
                       !.games[1].winner = PlayerOf(H, 1, verdict)]
      Held(H) ==
        Holding(Holding(H, H.games[1].human, hcards), H.games[1].ai, acards)
  IN  Earlier(WithLives(Held(MatchWith(<<"Sol Knight">>, <<"Moon Fiend">>)),
                        hlife, alife))

InitVerdict ==
  /\ \E hlife \in VerdictLives, alife \in VerdictLives,
        hcards \in Holdings, acards \in Holdings,
        verdict \in {"none", "human", "ai"} :
       heap = VerdictGame(hlife, alife, hcards, acards, verdict)
  /\ last = [op |-> "match", g |-> 1, ret |-> None, raised |-> FALSE]
  /\ steps = 0
  /\ call = NoCall

NextVerdict == last.op # "check_game_over" /\ CheckGameOver(1)

SpecVerdict == InitVerdict /\ [][NextVerdict]_vars

\* player P has no card in draw pile, hand and field
OutOfCards(P) == P.deck = <<>> /\ P.hand = <<>> /\ P.field = None

\* C26: check_game_over decides in this order: human life <= 0 gives game
\* over with the AI as winner, also when the AI's life is <= 0 as well;
\* otherwise AI life <= 0 gives the human as winner; otherwise a human with
\* no card in draw pile, hand and field loses, also when the AI has none
\* either; otherwise an AI with no card loses; otherwise game_over and
\* winner stay as they were.
VerdictOrder ==
  [][last'.op = "check_game_over" =>
       LET G == heap.games[1]
           G2 == heap'.games[1]
           Won(p) == G2.game_over /\ G2.winner = p
       IN  /\ heap'.players = heap.players
           /\ heap'.cards = heap.cards
           /\ IF Human(heap, 1).life_points <= 0 THEN Won(G.ai)
              ELSE IF Ai(heap, 1).life_points <= 0 THEN Won(G.human)
              ELSE IF OutOfCards(Human(heap, 1)) THEN Won(G.ai)
              ELSE IF OutOfCards(Ai(heap, 1)) THEN Won(G.human)
              ELSE G2.game_over = G.game_over /\ G2.winner = G.winner]_vars

\* check_game_over has been called with both life totals at or below zero:
\* the AI is the winner
BothAtZeroAiWins ==
  /\ last.op = "check_game_over"
  /\ Human(heap, 1).life_points <= 0
  /\ Ai(heap, 1).life_points <= 0
  /\ heap.games[1].game_over
  /\ heap.games[1].winner = heap.games[1].ai

\* C27: terminal conditions are never missed: in every state reached from a
\* set-up game by any sequence of draw, play, combine, undo, resolve_battle
\* and next_turn (the set-up game itself included, the game that GameState()
\* has built and setup_game has not yet dealt left out), a player with a
\* life total <= 0 or with no card in draw pile, hand and field means that
\* game_over is already set.
TerminalNeverMissed ==
  last.op # "GameState" =>
    \A g \in 1..Len(heap.games) :
      (\E P \in {Human(heap, g), Ai(heap, g)} :
         P.life_points <= 0 \/ OutOfCards(P))
        => heap.games[g].game_over

\* setup_game has dealt from a file of three monsters: the human holds
\* cards, the AI has none in draw pile, hand and field, both life totals are
\* positive and the game is not over
SetUpWithoutCards ==
  /\ last.op = "setup_game"
  /\ Len(heap.CARD_DATABASE) = 3
  /\ ~OutOfCards(Human(heap, 1))
  /\ OutOfCards(Ai(heap, 1))
  /\ Human(heap, 1).life_points > 0
  /\ Ai(heap, 1).life_points > 0
  /\ ~heap.games[1].game_over

(***************************************************************************)
(* Turns: the players hold up to seven cards each, two of them in hand or  *)
(* five, and next_turn is called again and again; steps counts the calls.  *)
(***************************************************************************)
MaxDeck == 7

InitTurns ==
  /\ \E d \in FullDeals, hn \in 0..MaxDeck, an \in 0..MaxDeck,
        full \in BOOLEAN :
       LET H == MatchWith(SubSeq(d[1], 1, Min2(hn, Len(d[1]))),
                             SubSeq(d[2], 1, Min2(an, Len(d[2]))))
       IN  heap = IF full THEN FullHands(H) ELSE H
  /\ last = [op |-> "match", g |-> 1, ret |-> None, raised |-> FALSE]
  /\ steps = 0
  /\ call = NoCall

NextTurns == NextTurn(1)

SpecTurns == InitTurns /\ [][NextTurns]_vars

\* the other player of game G
Opponent(G, p) == IF p = G.human THEN G.ai ELSE G.human

\* C28: next_turn switches the current player on every call; the turn
\* counter goes up by exactly 1 when control passes from the AI back to the
\* human and stays when it passes from the human to the AI, so that after n
\* calls from the initial state it is 1 + floor(n / 2); the new current
\* player, and only that player, makes one draw; both fields, both discard
\* piles, both life totals and the other player's hand and draw pile are
\* unchanged.
NextTurnContract ==
  /\ [](heap.games[1].turn_number = 1 + (steps \div 2))
  /\ [][last'.op = "next_turn" =>
          LET G == heap.games[1]
              G2 == heap'.games[1]
              new == Opponent(G, G.current_player)
              P == heap.players[new]
              P2 == heap'.players[new]
          IN  /\ G2.current_player = new
              /\ G2.turn_number =
                   IF G.current_player = G.ai THEN G.turn_number + 1
                   ELSE G.turn_number
              /\ IF Len(P.deck) > 0 /\ Len(P.hand) < HandLimit
                 THEN /\ P2.hand = Append(P.hand, Head(P.deck))
                      /\ P2.deck = Tail(P.deck)
                 ELSE /\ P2.hand = P.hand
                      /\ P2.deck = P.deck
              /\ P2.field = P.field
              /\ P2.graveyard = P.graveyard
              /\ P2.life_points = P.life_points
              /\ heap'.players[G.current_player]
                   = heap.players[G.current_player]
              /\ heap'.cards = heap.cards
              /\ ~last'.raised]_vars

\* four calls of next_turn: it is turn 3, the human is to play and has drawn
\* twice since the deal, the AI once with its second draw refused for want
\* of cards
ThirdTurnReached ==
  /\ last.op = "next_turn"
  /\ steps = 4
  /\ heap.games[1].turn_number = 3
  /\ heap.games[1].current_player = heap.games[1].human
  /\ Len(Human(heap, 1).hand) = EarlyDraws + 2
  /\ Len(Ai(heap, 1).hand) = EarlyDraws + 1
  /\ Ai(heap, 1).deck = <<>>

(***************************************************************************)
(* Terminal positions: at the end of a match (OverDeals, life totals 8000  *)
(* or LowLife) up to MaxTerminalSteps engine operations are called, which  *)
(* may finish the game; then the AI evaluates the state or searches it to  *)
(* a depth of at most MaxTerminalDepth.                                    *)
(***************************************************************************)
MaxTerminalSteps == 3

MaxTerminalDepth == 1

InitTerminal ==
  /\ \E d \in OverDeals, life \in {8000, LowLife} :
       heap = WithLives(MatchWith(d[1], d[2]), life, life)
  /\ last = [op |-> "match", g |-> 1, ret |-> None, raised |-> FALSE]
  /\ steps = 0
  /\ call = [op |-> "none", args |-> <<>>, ret |-> <<>>, states |-> 0]

\* an engine operation before the evaluation or the search
Earlier(operation) ==
  call.op = "none" /\ steps < MaxTerminalSteps /\ operation

\* ai.evaluate(state)
Evaluate(g) == Returns("evaluate", <<g>>, R(heap, None), <<evaluate(heap, g)>>)

NextTerminal ==
  \/ \E side \in Sides : Earlier(DrawCard(1, side))
  \/ \E side \in Sides, position \in Positions, star_num \in StarNums :
       \E i \in HandIdx(1, side) :
         Earlier(PlayCard(1, side, i, position, star_num))
  \/ \E side \in Sides :
       \E i, j \in HandIdx(1, side) : Earlier(FuseCards(1, side, i, j))
  \/ \E attacker \in Sides : Earlier(ResolveBattle(1, attacker))
  \/ Earlier(NextTurn(1))
  \/ Evaluate(1)
  \/ \E depth \in 0..MaxTerminalDepth, is_maximizing \in BOOLEAN :
       Minimax(1, depth, is_maximizing)

SpecTerminal == InitTerminal /\ [][NextTerminal]_vars

\* C29: evaluate on a state flagged game over returns +100000 when the
\* winner is the AI and -100000 when it is the human, whatever the life
\* totals, hands, fields and piles; minimax on a game-over state or with
\* depth 0 returns (evaluate(state), None) without creating a child state.
TerminalBound ==
  [][/\ (call'.op = "evaluate" /\ call.op = "none" /\ heap.games[1].game_over)
          => /\ heap.games[1].winner \in {heap.games[1].ai, heap.games[1].human}
             /\ call'.ret =
                  << IF heap.games[1].winner = heap.games[1].ai
                     THEN IntScore(100000) ELSE IntScore(-100000) >>
     /\ (/\ call'.op = "minimax" /\ call.op = "none"
         /\ (call'.args[2] = 0 \/ heap.games[1].game_over))
          => /\ call'.ret = <<evaluate(heap, 1), <<>>>>
             /\ call'.states = 0
             /\ heap' = heap]_vars

\* a search of depth 1 was asked for on a game the human has won: it
\* returns the fixed minimum and no action
LostGameSearched ==
  /\ call.op = "minimax"
  /\ call.args[2] = MaxTerminalDepth
  /\ heap.games[1].game_over
  /\ heap.games[1].winner = heap.games[1].human
  /\ call.ret = <<IntScore(-100000), <<>>>>

(***************************************************************************)
(* The fusion shortcut: the AI holds three cards, at most MaxShortcutSteps *)
(* engine operations are called, and the AI is asked for its move.         *)
(***************************************************************************)
MaxShortcutSteps == 1

ShortcutDeals ==
  { << <<"Sol Knight", "Moon Fiend">>,
       <<"Stone Wall", "Tide Serpent", "Sun Soldier">> >>,
    << <<"Stone Wall", "Tide Serpent">>,
       <<"Sol Knight", "Moon Fiend", "Sun Soldier">> >>,
    << <<"Moon Fiend", "Stone Wall">>,
       <<"Sun Soldier", "Twilight Dragon", "Sol Knight">> >> }

InitShortcut ==
  /\ \E d \in ShortcutDeals : heap = FullHands(MatchWith(d[1], d[2]))
  /\ last = [op |-> "match", g |-> 1, ret |-> None, raised |-> FALSE]
  /\ steps = 0
  /\ call = [op |-> "none", args |-> <<>>, ret |-> <<>>, states |-> 0]

\* an engine operation before the AI is asked
Prior(operation) == call.op = "none" /\ steps < MaxShortcutSteps /\ operation

NextShortcut ==
  \/ \E side \in Sides, position \in Positions, star_num \in StarNums :
       \E i \in HandIdx(1, side) :
         Prior(PlayCard(1, side, i, position, star_num))
  \/ \E side \in Sides :
       \E i, j \in HandIdx(1, side) : Prior(FuseCards(1, side, i, j))
  \/ Prior(NextTurn(1))
  \/ \E max_depth \in 1..MaxDepth : GetBestMove(1, max_depth)

SpecShortcut == InitShortcut /\ [][NextShortcut]_vars

\* the gain of fusing the hand cards at i and j: the result's attack minus
\* the better material's attack
Gain(hand, i, j) ==
  check_fusion_by_cards(hand[i + 1], hand[j + 1])[1].atk
    - Max2(hand[i + 1].atk, hand[j + 1].atk)

\* the pairs i < j of a hand that match a recipe and qualify for the
\* shortcut
Qualifying(hand) ==
  {pair \in (0..(Len(hand) - 1)) \X (0..(Len(hand) - 1)) :
     /\ pair[1] < pair[2]
     /\ check_fusion_by_cards(hand[pair[1] + 1], hand[pair[2] + 1]) # <<>>
     /\ \/ Gain(hand, pair[1], pair[2]) > 500
        \/ check_fusion_by_cards(hand[pair[1] + 1],
                                 hand[pair[2] + 1])[1].atk >= 2500}

\* pair p is met before pair q in the scan of the hand
ScannedBefore(p, q) == p[1] < q[1] \/ (p[1] = q[1] /\ p[2] < q[2])

\* C30: whenever a combinable pair of the AI's hand qualifies (result
\* attack minus the better material attack > 500, or result attack >= 2500)
\* get_best_move returns a fuse action without running the search, and the
\* action is the qualifying pair with the greatest gain, the first one
\* found among equals; when no pair qualifies it runs minimax with the
\* configured depth, alpha = -inf, beta = +inf and is_maximizing = True.
ShortcutTaken ==
  [][(call.op = "none" /\ call'.op = "get_best_move") =>
       LET hand == CardsAt(heap, Ai(heap, 1).hand)
           pairs == Qualifying(hand)
           search == minimax(heap, 1, call'.args[2], MinusInf, PlusInf, TRUE)
       IN  IF pairs # {}
           THEN /\ call'.ret # << <<>> >>
                /\ call'.ret[1][1].type = "fuse"
                /\ call'.states = 0
                /\ heap' = heap
                /\ \E p \in pairs :
                     /\ call'.ret[1][1].idx1 = p[1]
                     /\ call'.ret[1][1].idx2 = p[2]
                     /\ \A q \in pairs :
                          \/ Gain(hand, q[1], q[2]) < Gain(hand, p[1], p[2])
                          \/ /\ Gain(hand, q[1], q[2]) = Gain(hand, p[1], p[2])
                             /\ (q = p \/ ScannedBefore(p, q))
           ELSE /\ heap' = search.heap
                /\ call'.ret[1] =
                     IF search.action # <<>> /\ search.action[1].type = "play"
                     THEN <<optimize_play_action(search.heap, 1,
                                                 search.action[1])>>
                     ELSE search.action]_vars

\* get_best_move with the shortcut disabled: the search and the refinement
\* of a play action; <<action>> or <<>>
SearchedMove(H, state, max_depth) ==
  LET Refined(res) ==
        IF res.action # <<>> /\ res.action[1].type = "play"
        THEN <<optimize_play_action(res.heap, state, res.action[1])>>
        ELSE res.action
  IN  Refined(minimax(H, state, max_depth, MinusInf, PlusInf, TRUE))

\* C31: whenever the fusion shortcut fires, the fuse action that
\* get_best_move returns is the action the full minimax search at the
\* configured depth selects on the same state when the shortcut is left
\* out.
ShortcutAgreesWithSearch ==
  [][(/\ call.op = "none"
      /\ call'.op = "get_best_move"
      /\ check_for_valuable_fusion(CardsAt(heap, Ai(heap, 1).hand)) # <<>>)
       => call'.ret[1] = SearchedMove(heap, 1, call'.args[2])]_vars

\* the child of an action as the search is to build it: a copy of the
\* state, the action applied to the copy for the mover, and a battle with
\* the mover as attacker exactly when both fields are then occupied
AppliedCopy(H, state, action, is_maximizing) ==
  LET mover == IF is_maximizing THEN "ai" ELSE "human"
      WithBattle(H2, copy) ==
        IF Human(H2, copy).field # None /\ Ai(H2, copy).field # None
        THEN R(resolve_battle(H2, copy, mover).heap, copy)
        ELSE R(H2, copy)
      Applied(copy) ==
        WithBattle(apply_action(copy.heap, copy.ret,
                            PlayerOf(copy.heap, copy.ret, mover), action).heap,
               copy.ret)
  IN  Applied(GameState_copy(H, state))

\* the value of an action at a node searched with depth left: its child
\* searched in full with the same depth and role for a fuse, with depth - 1
\* and the opposite role for a play or a pass
ValueBelow(H, state, action, depth, is_maximizing) ==
  LET Searched(child) ==
        IF action.type = "fuse"
        THEN exhaustive(child.heap, child.ret, depth, is_maximizing).value
        ELSE exhaustive(child.heap, child.ret, depth - 1, ~is_maximizing).value
  IN  Searched(AppliedCopy(H, state, action, is_maximizing))

\* C32: depth semantics.  At a node that minimax expands, the child of a
\* fuse action is searched with the same remaining depth and the same role,
\* the child of a play or pass action with depth - 1 and the opposite role:
\* the value returned is the best, for the mover, of the values so obtained.
\* Each child is a copy with the action applied and a battle resolved with
\* the mover as attacker exactly when both fields are occupied; the first
\* child built is that of the first action.
DepthSemantics ==
  [][(/\ call.op = "none" /\ call'.op = "minimax"
      /\ call'.args[2] >= 1
      /\ ~heap.games[call'.args[1]].game_over) =>
       LET g == call'.args[1]
           depth == call'.args[2]
           is_maximizing == call'.args[3]
           actions == get_possible_actions(
                        heap, g, PlayerOf(heap, g, IF is_maximizing THEN "ai"
                                                   ELSE "human"))
           values == {ValueBelow(heap, g, actions[i], depth, is_maximizing) :
                        i \in DOMAIN actions}
           first == AppliedCopy(heap, g, actions[1], is_maximizing)
       IN  /\ call'.ret[1] \in values
           /\ \A v \in values :
                IF is_maximizing THEN ~Less(call'.ret[1], v)
                ELSE ~Less(v, call'.ret[1])
           /\ View(heap', Len(heap.games) + 1) = View(first.heap, first.ret)]_vars

\* minimax at depth 1 has returned a fuse action whose child was searched
\* further: the value is not the evaluation of the fused state itself, and
\* the other side's field was occupied
FuseSearchedAtSameDepth ==
  /\ call.op = "minimax"
  /\ call.args[2] = 1
  /\ call.ret[2] # <<>>
  /\ call.ret[2][1].type = "fuse"
  /\ \E g \in 2..Len(heap.games) :
       /\ heap.games[g].battle_log # <<>>
       /\ call.ret[1] # evaluate(heap, g)

(***************************************************************************)
(* The recursion of minimax, one call at a time: call is the frame of the  *)
(* current call (state, depth, is_maximizing), steps the number of calls   *)
(* above it, and Recurse enters the call that the loop makes for one of    *)
(* the node's actions.  Every path from the root call through the tree of  *)
(* recursive calls is a behaviour; the loop of a node runs over a finite   *)
(* list, so the search returns when every such path ends.                  *)
(***************************************************************************)
DescentDeals ==
  { << <<"Sol Knight", "Moon Fiend">>,
       <<"Stone Wall", "Tide Serpent", "Sun Soldier">> >>,
    << <<"Stone Wall", "Tide Serpent", "Sun Soldier">>,
       <<"Moon Fiend", "Sol Knight">> >> }

\* the match as it is, after the human has played, or after both have
DescentStarts(H) ==
  LET HumanPlayed == play_card(H, H.games[1].human, 0, "ATK", 1).heap
  IN  {H, HumanPlayed,
       play_card(HumanPlayed, H.games[1].ai, 1, "DEF", 1).heap}

\* the frame of ai.minimax(state, depth, alpha, beta, is_maximizing);
\* chain counts the calls entered at this depth since the depth last went
\* down, hand is the mover's hand size when the chain began
Frame(H, state, depth, alpha, beta, is_maximizing, chain, hand) ==
  [op |-> "minimax", args |-> <<state, depth, is_maximizing>>,
   alpha |-> alpha, beta |-> beta, chain |-> chain, hand |-> hand]

\* the hand size of the player that moves in the frame
MoverHand(H, frame) ==
  Len(H.players[PlayerOf(H, frame.args[1],
                         IF frame.args[3] THEN "ai" ELSE "human")].hand)

\* a root call: ai.minimax(state, depth, -math.inf, math.inf, is_maximizing)
InitDescent ==
  /\ \E d \in DescentDeals :
       heap \in DescentStarts(FullHands(MatchWith(d[1], d[2])))
  /\ last = [op |-> "match", g |-> 1, ret |-> None, raised |-> FALSE]
  /\ steps = 0
  /\ \E depth \in 0..MaxDepth, is_maximizing \in BOOLEAN :
       call = Frame(heap, 1, depth, MinusInf, PlusInf, is_maximizing, 0,
                    Len(heap.players[PlayerOf(heap, 1,
                          IF is_maximizing THEN "ai" ELSE "human")].hand))

\* if depth == 0 or state.game_over: return
AtLeaf == call.args[2] = 0 \/ heap.games[call.args[1]].game_over

\* the actions of the node of the current call, in the order of the loop
NodeActions ==
  get_possible_actions(heap, call.args[1],
                       PlayerOf(heap, call.args[1],
                                IF call.args[3] THEN "ai" ELSE "human"))

\* the loop "for action in actions" of the current call: <<alpha, beta>> at
\* the start of every iteration it makes, the first with the alpha and beta
\* of the call, the next ones after alpha = max(alpha, eval_score) or
\* beta = min(beta, eval_score) with the score the recursive call returned;
\* the list ends with the iteration after which beta <= alpha (break)
LoopBounds(actions) ==
  LET state == call.args[1]
      depth == call.args[2]
      is_maximizing == call.args[3]
      Score(action, alpha, beta) ==
        minimax_at(Child(heap, state, action, is_maximizing),
                   ChildDepth(action, depth), alpha, beta,
                   ChildRole(action, is_maximizing)).value
      Updated(alpha, beta, eval_score) ==
        IF is_maximizing THEN <<FloatMax(alpha, eval_score), beta>>
        ELSE <<alpha, FloatMin(beta, eval_score)>>
      RECURSIVE Iterations(_, _)
      Continue(made, bounds) ==
        IF Cutoff(bounds[1], bounds[2]) \/ Len(made) = Len(actions) THEN made
        ELSE Iterations(made, bounds)
      Iterations(made, bounds) ==
        Continue(Append(made, bounds),
                 Updated(bounds[1], bounds[2],
                         Score(actions[Len(made) + 1], bounds[1], bounds[2])))
  IN  IF AtLeaf \/ actions = <<>> THEN <<>>
      ELSE Iterations(<<>>, <<call.alpha, call.beta>>)

\* the recursive call of one iteration of the loop, entered with the alpha
\* and beta of that iteration: the child is built and minimax is entered on
\* it
Recurse(action, bounds) ==
  LET state == call.args[1]
      depth == call.args[2]
      is_maximizing == call.args[3]
      Enter(child, frame) ==
        /\ heap' = child.heap
        /\ call' = IF frame.args[2] = depth
                   THEN [frame EXCEPT !.chain = call.chain + 1,
                                      !.hand = call.hand]
                   ELSE [frame EXCEPT !.hand = MoverHand(child.heap, frame)]
      Call(child) ==
        Enter(child, Frame(child.heap, child.ret, ChildDepth(action, depth),
                           bounds[1], bounds[2],
                           ChildRole(action, is_maximizing), 0, 0))
  IN  /\ ~AtLeaf
      /\ Call(Child(heap, state, action, is_maximizing))
      /\ last' = [op |-> action.type, g |-> state, ret |-> None,
                  raised |-> FALSE]
      /\ steps' = steps + 1

NextDescent ==
  LET Calls(actions, made) ==
        \E k \in DOMAIN made : Recurse(actions[k], made[k])
  IN  Calls(NodeActions, LoopBounds(NodeActions))

SpecDescent == InitDescent /\ [][NextDescent]_vars

\* the measure of a call: its depth, then the hand size of its mover
Smaller(H2, frame2, H, frame) ==
  \/ frame2.args[2] < frame.args[2]
  \/ /\ frame2.args[2] = frame.args[2]
     /\ MoverHand(H2, frame2) < MoverHand(H, frame)

\* C33: minimax terminates.  Every recursive call either has the depth
\* lowered by one (after a play or a pass) or the same depth, the same
\* mover and a strictly smaller hand for the mover (after a fuse), so the
\* pair (depth, mover's hand size) goes down in the lexicographic order at
\* every call and no path of recursive calls is infinite; a chain of calls
\* at one depth is never longer than the mover's hand was when the chain
\* began, and no call is made with a depth below 0.
MinimaxTerminates ==
  /\ [][/\ \/ /\ last'.op \in {"play", "pass"}
              /\ call'.args[2] = call.args[2] - 1
           \/ /\ last'.op = "fuse"
              /\ call'.args[2] = call.args[2]
              /\ call'.args[3] = call.args[3]
              /\ MoverHand(heap', call') < MoverHand(heap, call)
        /\ Smaller(heap', call', heap, call)]_vars
  /\ [](call.chain <= call.hand /\ call.args[2] >= 0)

\* two fusions in a row were searched at the same depth: the chain is two
\* calls long and the mover, who began with three cards, holds one
TwoFusionsAtOneDepth ==
  /\ call.op = "minimax"
  /\ call.chain = 2
  /\ call.hand = 3
  /\ MoverHand(heap, call) = 1
  /\ call.args[2] >= 1

(***************************************************************************)
(* The refinement of the move: the AI holds one card of the data set, or   *)
(* two, the human two; one engine operation may be called, and the AI is   *)
(* asked for its move.                                                     *)
(***************************************************************************)
RefineDeals ==
  { <<human_deck, ai_deck>> :
      human_deck \in { <<"Sol Knight", "Moon Fiend">>,
                       <<"Twilight Dragon", "Stone Wall">>,
                       <<"Tide Serpent", "Sun Soldier">> },
      ai_deck \in { <<name>> : name \in CardNames }
                    \cup { <<"Sun Soldier", "Moon Fiend">> } }

InitRefine ==
  /\ \E d \in RefineDeals : heap = FullHands(MatchWith(d[1], d[2]))
  /\ last = [op |-> "match", g |-> 1, ret |-> None, raised |-> FALSE]
  /\ steps = 0
  /\ call = [op |-> "none", args |-> <<>>, ret |-> <<>>, states |-> 0]

SpecRefine == InitRefine /\ [][NextShortcut]_vars

\* the stance of the refinement, from the attack and defense of the card
\* and the attack of the opponent's field card, <<>> when there is none
StanceRule(atk, defense, opp_atk) ==
  CASE opp_atk = <<>> /\ atk >= 1500 -> "ATK"
    [] opp_atk = <<>> /\ atk < 1500 -> "DEF"
    [] opp_atk # <<>> /\ atk > opp_atk[1] -> "ATK"
    [] opp_atk # <<>> /\ atk <= opp_atk[1] /\ defense >= opp_atk[1] -> "DEF"
    [] opp_atk # <<>> /\ atk <= opp_atk[1] /\ defense < opp_atk[1]
         /\ defense > atk -> "DEF"
    [] OTHER -> "ATK"

\* the attack of the human's field card in game g of H: <<atk>> or <<>>
OpponentAttack(H, g) ==
  IF Human(H, g).field = None THEN <<>>
  ELSE <<H.cards[Human(H, g).field].atk>>

\* the card at hand index i of the AI in game g of H
AiHandCard(H, g, i) == H.cards[Ai(H, g).hand[i + 1]]

\* get_best_move has returned a play action
PlayReturned ==
  /\ call.op = "get_best_move"
  /\ call.ret[1] # <<>>
  /\ call.ret[1][1].type = "play"

\* C34: refinement of a play action.  When the search of get_best_move
\* chooses a play action, get_best_move returns a play action with the same
\* hand index, and its stance is, whatever stance the search scored: with
\* no opponent card on the field, ATK if the card's attack >= 1500 else DEF;
\* with one, ATK if the card's attack exceeds the opponent's attack, else
\* DEF if the card's defense >= the opponent's attack, else DEF if the
\* card's defense is strictly larger than its attack and ATK otherwise.
RefinedStance ==
  [][(/\ call.op = "none" /\ call'.op = "get_best_move"
      /\ check_for_valuable_fusion(CardsAt(heap, Ai(heap, 1).hand)) = <<>>) =>
       LET Chosen(searched) ==
             (searched # <<>> /\ searched[1].type = "play") =>
               /\ call'.ret[1] # <<>>
               /\ call'.ret[1][1].type = "play"
               /\ call'.ret[1][1].index = searched[1].index
               /\ call'.ret[1][1].position =
                    StanceRule(AiHandCard(heap, 1, searched[1].index).atk,
                               AiHandCard(heap, 1, searched[1].index).defense,
                               OpponentAttack(heap, 1))
       IN  Chosen(minimax(heap, 1, call'.args[2], MinusInf, PlusInf, TRUE).action)]_vars

\* a play was returned in DEF by the last rule (the card can neither win
\* nor hold, its defense is the larger value) although the search had
\* scored the card in another stance
FallbackDefenseOverSearch ==
  /\ PlayReturned
  /\ OpponentAttack(heap, 1) # <<>>
  /\ AiHandCard(heap, 1, call.ret[1][1].index).atk <= OpponentAttack(heap, 1)[1]
  /\ AiHandCard(heap, 1, call.ret[1][1].index).defense < OpponentAttack(heap, 1)[1]
  /\ call.ret[1][1].position = "DEF"
  /\ minimax(heap, 1, call.args[2], MinusInf, PlusInf, TRUE).action[1].position = "ATK"

\* C35: token choice of the refinement.  A play action returned by
\* get_best_move uses token 2 only when the card's second token has a
\* strictly greater bonus against the active token of the opponent's field
\* card than its first token; on equal bonuses, and when the opponent has
\* no card on the field, it uses token 1.
RefinedToken ==
  [][(/\ call.op = "none" /\ call'.op = "get_best_move"
      /\ call'.ret[1] # <<>>
      /\ call'.ret[1][1].type = "play") =>
       LET card == AiHandCard(heap, 1, call'.ret[1][1].index)
           opponent == Human(heap, 1).field
       IN  call'.ret[1][1].star =
             IF /\ opponent # None
                /\ calculate_star_bonus(card.star2,
                                        heap.cards[opponent].selected_star)
                     > calculate_star_bonus(card.star1,
                                            heap.cards[opponent].selected_star)
             THEN 2 ELSE 1]_vars

\* a play was returned with token 2: the card's first token is weak to the
\* active token of the human's field card, the second is not
SecondTokenChosen ==
  /\ PlayReturned
  /\ call.ret[1][1].star = 2
  /\ Human(heap, 1).field # None
  /\ calculate_star_bonus(AiHandCard(heap, 1, call.ret[1][1].index).star1,
                          heap.cards[Human(heap, 1).field].selected_star) = -500

(***************************************************************************)
(* The AI's turn as the game runs it: Game.ai_turn asks the AI for its    *)
(* move, fuses and asks again when the move is a fusion, applies a play,   *)
(* attacks with a card on both fields and, unless the match is over, hands *)
(* the turn on with next_turn.  Its drawing of the screen and its waits    *)
(* (pygame.time.wait) change nothing of the match.                         *)
(***************************************************************************)
\* the end of Game.ai_turn: "if not self.game_state.game_over: ...
\* self.game_state.next_turn()", else the game only shows the final screen.
\* The record is what the turn leaves: the heap, best_action as it was when
\* the play was decided (<<>> for None), the AI's hand at that moment, and
\* the result of the battle (<<>> when none was fought)
ai_turn_end(H, g, best_action, hand, result) ==
  [heap |-> IF H.games[g].game_over THEN H ELSE next_turn(H, g).heap,
   best_action |-> best_action, hand |-> hand, battle |-> result]

\* "if self.game_state.human.field and self.game_state.ai.field:
\* result = self.game_state.resolve_battle(attacker="ai")" of Game.ai_turn,
\* and the end of the turn
ai_turn_battle(H, g, best_action, hand) ==
  IF Human(H, g).field # None /\ Ai(H, g).field # None
  THEN ai_turn_end(resolve_battle(H, g, "ai").heap, g, best_action, hand,
                   resolve_battle(H, g, "ai").ret)
  ELSE ai_turn_end(H, g, best_action, hand, <<>>)

\* "if best_action and best_action["type"] == "play":
\* self.game_state.apply_action(self.game_state.ai, best_action)" of
\* Game.ai_turn: the heap after it
ai_turn_play(H, g, best_action) ==
  IF best_action # <<>> /\ best_action[1].type = "play"
  THEN apply_action(H, g, H.games[g].ai, best_action[1]).heap
  ELSE H

\* "result = self.game_state.ai.fuse_cards(idx1, idx2); if result: ...
\* best_action = self.ai.get_best_move(self.game_state)" of Game.ai_turn:
\* the heap and the best_action after it
ai_turn_fused(result, g, max_depth, best_action) ==
  IF result.ret # None THEN get_best_move(result.heap, g, max_depth)
  ELSE [heap |-> result.heap, action |-> best_action]

\* "if best_action: if best_action["type"] == "fuse": ..." of Game.ai_turn:
\* the heap and the best_action the play is decided on
ai_turn_fuse(move, g, max_depth) ==
  IF move.action # <<>> /\ move.action[1].type = "fuse"
  THEN ai_turn_fused(fuse_cards(move.heap, move.heap.games[g].ai,
                                move.action[1].idx1, move.action[1].idx2),
                     g, max_depth, move.action)
  ELSE move

\* Game.ai_turn from the play on, move being the heap and the best_action
\* the play is decided on
ai_turn_act(move, g) ==
  ai_turn_battle(ai_turn_play(move.heap, g, move.action), g, move.action,
                 move.heap.players[move.heap.games[g].ai].hand)

\* Game.ai_turn() of a game with self.ai = MinimaxAI(max_depth) and
\* self.game_state = g, from "best_action = self.ai.get_best_move(
\* self.game_state)" on
ai_turn(H, g, max_depth) ==
  ai_turn_act(ai_turn_fuse(get_best_move(H, g, max_depth), g, max_depth), g)

\* Game.__init__: "self.ai = MinimaxAI(max_depth=3)", the only assignment of
\* the window's AI
GameMaxDepth == 3

\* the methods of Game that run the AI's turn: end_turn, the handler of the
\* button that ends the human's turn, and ai_turn, which end_turn calls
TurnMethods == {"end_turn", "ai_turn"}

\* Game.end_turn(): "self.game_state.next_turn()" and then "self.ai_turn()";
\* its card_played_this_turn, current_phase and message are fields of the
\* window
end_turn(H, g, max_depth, method) ==
  ai_turn(IF method = "end_turn" THEN next_turn(H, g).heap ELSE H, g,
          max_depth)

\* self.end_turn() or self.ai_turn(), the AI not having moved yet
EndTurn(g, max_depth, method) ==
  LET Done(turn) ==
        /\ heap' = turn.heap
        /\ call' = [op |-> method, args |-> <<g, max_depth>>,
                    ret |-> turn.best_action, hand |-> turn.hand,
                    battle |-> turn.battle]
  IN  /\ call.op = "none"
      /\ \E turn \in {end_turn(heap, g, max_depth, method)} : Done(turn)
      /\ last' = [op |-> method, g |-> g, ret |-> None, raised |-> FALSE]
      /\ steps' = steps + 1

NextAttack ==
  \/ \E side \in Sides, position \in Positions, star_num \in StarNums :
       \E i \in HandIdx(1, side) :
         Prior(PlayCard(1, side, i, position, star_num))
  \/ \E side \in Sides :
       \E i, j \in HandIdx(1, side) : Prior(FuseCards(1, side, i, j))
  \/ Prior(NextTurn(1))
  \/ \E method \in TurnMethods : EndTurn(1, GameMaxDepth, method)

SpecAttack == InitRefine /\ [][NextAttack]_vars

\* C36: guaranteed win of the Attack choice.  Whenever the AI's turn plays
\* a card whose attack exceeds the attack of the human's field card, the
\* play is in ATK and the battle that follows with the AI as attacker is won
\* by the AI: the human's card goes to the graveyard, the AI's life is
\* unchanged and its card stays on the field, whatever the stance and the
\* active token of the human's card.
AttackChoiceWins ==
  [][(/\ call'.op \in TurnMethods
      /\ call'.ret # <<>>
      /\ call'.ret[1].type = "play"
      /\ OpponentAttack(heap, 1) # <<>>
      /\ heap'.cards[call'.hand[call'.ret[1].index + 1]].atk
           > OpponentAttack(heap, 1)[1]) =>
       /\ call'.ret[1].position = "ATK"
       /\ Len(call'.battle) = 1
       /\ call'.battle[1].winner = "ai"
       /\ LosesCard(heap.games[1].human)
       /\ LifeChange(heap.games[1].ai) = 0
       /\ heap'.players[heap.games[1].ai].field
            = call'.hand[call'.ret[1].index + 1]]_vars

\* the number of cards player P holds: draw pile, hand, field and discard
\* pile
CardCount(P) ==
  Len(P.deck) + Len(P.hand) + Len(P.graveyard)
  + (IF P.field # None THEN 1 ELSE 0)

\* the cards of all zones of the players 1..n of H, counted zone by zone
RECURSIVE CardsHeld(_, _)
CardsHeld(H, n) ==
  IF n = 0 THEN 0 ELSE CardCount(H.players[n]) + CardsHeld(H, n - 1)

\* no card is in two zones, twice in a zone or with two players: the zones
\* hold as many different cards as they have places
NoCardTwice(H) ==
  Cardinality(UNION {CardsOfPlayer(H.players[p]) : p \in 1..Len(H.players)})
    = CardsHeld(H, Len(H.players))

(***************************************************************************)
(* The set-up: the module cards is imported with a monsters file of at     *)
(* most MaxFileRows rows (the first rows of the model's file),             *)
(* GameState(deck_size) is built for a deck size asked for, setup_game     *)
(* deals the cards, its shuffles leaving any order, and at most            *)
(* MaxSetupSteps engine operations are called on the game.  A deck has at  *)
(* least 10 cards, so that with these files setup_game always repeats the  *)
(* list of cards.                                                          *)
(***************************************************************************)
MaxFileRows == 3

RequestedDeckSizes == {5, 10, 13, 20, 50}

MaxSetupSteps == 1

InitSetup ==
  /\ \E rows \in 0..MaxFileRows, deck_size \in RequestedDeckSizes :
       heap = GameState(load_monsters_from_csv(NoData,
                                               SubSeq(Monsters, 1, rows)),
                        deck_size).heap
  /\ last = [op |-> "GameState", g |-> 1, ret |-> None, raised |-> FALSE]
  /\ steps = 0
  /\ call = NoCall

\* game.setup_game(), called once on the new game
SetupGame(g) ==
  /\ last.op = "GameState"
  /\ heap' \in setup_game(heap, g)
  /\ last' = [op |-> "setup_game", g |-> g, ret |-> None, raised |-> FALSE]
  /\ UNCHANGED <<steps, call>>

\* an engine operation on the game that was set up
AfterSetup(operation) ==
  last.op # "GameState" /\ steps < MaxSetupSteps /\ operation

NextSetup ==
  \/ SetupGame(1)
  \/ \E side \in Sides : AfterSetup(DrawCard(1, side))
  \/ \E side \in Sides, position \in Positions, star_num \in StarNums :
       \E i \in HandIdx(1, side) :
         AfterSetup(PlayCard(1, side, i, position, star_num))
  \/ \E side \in Sides : AfterSetup(UndoPlayCard(1, side))
  \/ \E side \in Sides :
       \E i, j \in HandIdx(1, side) : AfterSetup(FuseCards(1, side, i, j))
  \/ \E attacker \in Sides : AfterSetup(ResolveBattle(1, attacker))
  \/ AfterSetup(NextTurn(1))

SpecSetup == InitSetup /\ [][NextSetup]_vars

\* C37: card conservation.  For each player the number of cards in draw
\* pile, hand, field and discard pile is left as it is by draw_card,
\* play_card, undo_play_card, resolve_battle and next_turn (and by a
\* refused fuse_cards), and grows by exactly one for the player of a
\* successful fuse_cards; in every reachable state no card is in two zones
\* at once, twice in one zone, or held by two players.
CardConservation ==
  /\ [][last'.op \in {"draw_card", "play_card", "undo_play_card",
                      "fuse_cards", "resolve_battle", "next_turn"} =>
          \A p \in 1..Len(heap.players) :
            CardCount(heap'.players[p]) - CardCount(heap.players[p]) =
              IF /\ last'.op = "fuse_cards"
                 /\ last'.ret # None
                 /\ p = PlayerOf(heap, last'.g,
                                 IF Human(heap', last'.g).hand
                                      # Human(heap, last'.g).hand
                                 THEN "human" ELSE "ai")
              THEN 1 ELSE 0]_vars
  /\ [](NoCardTwice(heap))

\* setup_game has dealt from a file of three monsters: the list was
\* repeated, and the human's hand of five cards and draw pile of one hold
\* three card objects, one of them twice in the hand and once more in the
\* pile
RepeatedAfterSetup ==
  /\ last.op = "setup_game"
  /\ Len(heap.CARD_DATABASE) = 3
  /\ Len(Human(heap, 1).hand) = 5
  /\ Len(Human(heap, 1).deck) = 1
  /\ Cardinality(CardsOfPlayer(Human(heap, 1))) = 3
  /\ \E i, j \in DOMAIN Human(heap, 1).hand :
       /\ i # j
       /\ Human(heap, 1).hand[i] = Human(heap, 1).hand[j]

(***************************************************************************)
(* The end of a match: both players have a card on the field and hold      *)
(* another one, the life totals are full or low, and the engine            *)
(* operations that a match or a search calls (apply_action,                *)
(* resolve_battle, next_turn, copy) are called in any order.               *)
(***************************************************************************)
MaxFinalSteps == 4

FinalDeals ==
  { << <<"Stone Wall", "Tide Serpent">>, <<"Sol Knight", "Moon Fiend">> >>,
    << <<"Sol Knight", "Stone Wall">>, <<"Twilight Dragon", "Moon Fiend">> >> }

\* the first card of each player put on the field
FirstPlays(H, hi, hpos, ai, apos) ==
  play_card(play_card(H, H.games[1].human, hi, hpos, 1).heap,
            H.games[1].ai, ai, apos, 1).heap

InitFinal ==
  /\ \E d \in FinalDeals, life \in {8000, LowLife}, hi, ai \in {0, 1},
        hpos, apos \in Positions :
       heap = FirstPlays(WithLives(MatchWith(d[1], d[2]), life, life),
                         hi, hpos, ai, apos)
  /\ last = [op |-> "match", g |-> 1, ret |-> None, raised |-> FALSE]
  /\ steps = 0
  /\ call = NoCall

FinalStep(operation) == steps < MaxFinalSteps /\ operation

NextFinal ==
  \/ \E g \in Games, side \in Sides :
       \E action \in ActionsOf(g, side) : FinalStep(ApplyAction(g, side, action))
  \/ \E g \in Games, attacker \in Sides : FinalStep(ResolveBattle(g, attacker))
  \/ \E g \in Games : FinalStep(NextTurn(g))
  \/ FinalStep(CopyState)

SpecFinal == InitFinal /\ [][NextFinal]_vars

\* C38: game-over is final.  Once game_over is true in a match it stays
\* true and the winner stays the same side under resolve_battle,
\* apply_action, next_turn and copy (the copy being over with the same
\* winner), and no life total ever increases.
GameOverFinal ==
  [][/\ \A g \in 1..Len(heap.games) :
          /\ heap.games[g].game_over =>
               /\ heap'.games[g].game_over
               /\ SideOf(heap', g, heap'.games[g].winner)
                    = SideOf(heap, g, heap.games[g].winner)
          /\ Human(heap', g).life_points <= Human(heap, g).life_points
          /\ Ai(heap', g).life_points <= Ai(heap, g).life_points
     /\ (last'.op = "copy" /\ heap.games[1].game_over) =>
          /\ heap'.games[2].game_over
          /\ SideOf(heap', 2, heap'.games[2].winner)
               = SideOf(heap, 1, heap.games[1].winner)]_vars

(***************************************************************************)
(* The AI asked for its move in any state of a match: cards are on the     *)
(* field, the life totals are full or low, up to MaxLegalSteps engine      *)
(* operations are called (the match may end), and get_best_move is called  *)
(* on an AI of any depth from 0.                                           *)
(***************************************************************************)
MaxLegalSteps == 2

LegalDeals ==
  FinalDeals
  \cup { << <<"Sol Knight", "Moon Fiend", "Twilight Dragon">>,
            <<"Sun Soldier", "Stone Wall", "Tide Serpent">> >> }

InitLegal ==
  /\ \E d \in LegalDeals, life \in {8000, LowLife}, hi, ai \in {0, 1},
        hpos, apos \in Positions :
       heap = FirstPlays(WithLives(FullHands(MatchWith(d[1], d[2])),
                                   life, life),
                         hi, hpos, ai, apos)
  /\ last = [op |-> "match", g |-> 1, ret |-> None, raised |-> FALSE]
  /\ steps = 0
  /\ call = [op |-> "none", args |-> <<>>, ret |-> <<>>, states |-> 0]

\* an engine operation before the AI is asked
Ahead(operation) == call.op = "none" /\ steps < MaxLegalSteps /\ operation

NextLegal ==
  \/ \E side \in Sides :
       \E action \in ActionsOf(1, side) : Ahead(ApplyAction(1, side, action))
  \/ \E attacker \in Sides : Ahead(ResolveBattle(1, attacker))
  \/ Ahead(NextTurn(1))
  \/ \E max_depth \in 0..MaxDepth : GetBestMove(1, max_depth)

SpecLegal == InitLegal /\ [][NextLegal]_vars

\* applying the action to game g of H for the AI succeeds: play_card
\* returns True, fuse_cards returns the fused card
Succeeds(H, g, action) ==
  CASE action.type = "play" ->
         play_card(H, H.games[g].ai, action.index, action.position,
                   action.star).ret = TRUE
    [] action.type = "fuse" ->
         fuse_cards(H, H.games[g].ai, action.idx1, action.idx2).ret # None
    [] OTHER -> action.type = "pass"

\* C39: every move the AI returns is legal.  On a state that is not over
\* and with a depth of at least 1, get_best_move returns an action, the
\* action is one of get_possible_actions(state.ai) on that state, and
\* applying it succeeds; it returns None only when the state is over or
\* the depth is 0.
LegalMove ==
  [][(call.op = "none" /\ call'.op = "get_best_move") =>
       /\ (~heap.games[1].game_over /\ call'.args[2] >= 1) =>
            /\ call'.ret[1] # <<>>
            /\ call'.ret[1][1] \in ActionsOf(1, "ai")
            /\ Succeeds(heap, 1, call'.ret[1][1])
       /\ call'.ret[1] = <<>> =>
            (heap.games[1].game_over \/ call'.args[2] = 0)]_vars

\* on a match that is not over the AI has returned a play action refined
\* to DEF with token 2, for a card at the end of its hand
RefinedMoveReturned ==
  /\ PlayReturned
  /\ ~heap.games[1].game_over
  /\ call.ret[1][1].position = "DEF"
  /\ call.ret[1][1].star = 2
  /\ call.ret[1][1].index = Len(Ai(heap, 1).hand) - 1

\* C40: copy fidelity.  The copy of a match shows what the match shows
\* (life totals, draw piles, hands, fields and discard piles card for card
\* with stance and active token, turn counter, phase, current player,
\* game-over flag, winner, battle log and last battle result), and an
\* engine operation called on the match and on its copy returns the same
\* and leaves the two equal: undo_play_card and resolve_battle for either
\* side.
CopyFidelity ==
  [][last'.op = "copy" =>
       /\ View(heap', 2) = View(heap', 1)
       /\ \A side \in Sides :
            LET Same(on_match, on_copy) ==
                  /\ on_match.ret = on_copy.ret
                  /\ View(on_match.heap, 1) = View(on_copy.heap, 2)
            IN  /\ Same(undo_play_card(heap', PlayerOf(heap', 1, side)),
                        undo_play_card(heap', PlayerOf(heap', 2, side)))
                /\ Same(resolve_battle(heap', 1, side),
                        resolve_battle(heap', 2, side))]_vars

====
